---- MODULE Spec2Model ----
(***************************************************************************)
(* A model of src/src/api/services/pokemonApi.js: the result cache, the    *)
(* loading-state registry, the request executor (fetchWithErrorHandling),  *)
(* the domain operations and the batch fetcher.                            *)
(*                                                                         *)
(* JavaScript runs one synchronous segment at a time; an async function    *)
(* is suspended only at an await.  Each action below is one such segment:  *)
(* the code from a call (or from the settlement of the promise a call      *)
(* awaits) up to its next await or its return.                             *)
(*                                                                         *)
(* Strings the code computes with (queries, URLs, cache keys, messages)    *)
(* are sequences of one-character strings, so that String(), trim(),       *)
(* toLowerCase() and the regular expression are computed, not assumed;     *)
(* a literal of the code that is only ever concatenated is one element.    *)
(* Subscriber callbacks are assumed to return normally.                    *)
(***************************************************************************)
EXTENDS Integers, Sequences, FiniteSets, TLC

VARIABLES
    now,            \* Date.now(), in milliseconds since the module was loaded
    cache,          \* the Map `cache`: key -> [data, timestamp, writer]
    loadingStates,  \* the object `loadingStates`
    subscribers,    \* the Set `loadingStateSubscribers`, in insertion order
    calls,          \* every call of an exposed operation, in call order
    fetchLog,       \* history: every fetch(url) issued, in order
    notifyLog,      \* history: every subscriber callback invocation, in order
    errorLog        \* history: every console.error, in order

vars == <<now, cache, loadingStates, subscribers, calls, fetchLog, notifyLog,
          errorLog>>

-----------------------------------------------------------------------------
(* Bounds of the model *)

MaxCalls == 2    \* calls of exposed operations in one behaviour
MaxTicks == 2    \* the clock stops at MaxTicks * CACHE_DURATION
MaxLen == 3      \* length of the strings drawn as arguments
MaxStats == 1    \* getCacheStats calls in a behaviour

-----------------------------------------------------------------------------
(* Strings *)

LowerCase == <<"a","b","c","d","e","f","g","h","i","j","k","l","m",
               "n","o","p","q","r","s","t","u","v","w","x","y","z">>
UpperCase == <<"A","B","C","D","E","F","G","H","I","J","K","L","M",
               "N","O","P","Q","R","S","T","U","V","W","X","Y","Z">>
DigitChars == <<"0","1","2","3","4","5","6","7","8","9">>

Range(s) == {s[i] : i \in DOMAIN s}

\* String.prototype.toLowerCase, one character
LowerOf(c) ==
    IF \E i \in DOMAIN UpperCase : UpperCase[i] = c
    THEN LowerCase[CHOOSE i \in DOMAIN UpperCase : UpperCase[i] = c]
    ELSE c

toLowerCase(s) == [i \in DOMAIN s |-> LowerOf(s[i])]

WhiteSpace == {" ", "\t", "\n"}

\* String.prototype.trim
trim(s) ==
    LET keep == {i \in DOMAIN s : s[i] \notin WhiteSpace}
    IN  IF keep = {} THEN <<>>
        ELSE LET lo == CHOOSE i \in keep : \A j \in keep : i <= j
                 hi == CHOOSE i \in keep : \A j \in keep : j <= i
             IN  SubSeq(s, lo, hi)

\* the decimal digits of an integer: String(n), `${n}`
RECURSIVE NumToString(_)
NumToString(n) ==
    IF n < 0 THEN <<"-">> \o NumToString(0 - n)
    ELSE IF n < 10 THEN <<DigitChars[n + 1]>>
    ELSE NumToString(n \div 10) \o <<DigitChars[(n % 10) + 1]>>

\* /^[a-zA-Z0-9\-]+$/.test(s)
MatchesNamePattern(s) ==
    /\ Len(s) > 0
    /\ \A i \in DOMAIN s :
          s[i] \in Range(LowerCase) \cup Range(UpperCase) \cup Range(DigitChars) \cup {"-"}

-----------------------------------------------------------------------------
(* JavaScript values handed to the operations *)

JsNull == [t |-> "null", s |-> <<>>, n |-> 0]
JsUndefined == [t |-> "undefined", s |-> <<>>, n |-> 0]
JsStr(s) == [t |-> "string", s |-> s, n |-> 0]
JsNum(n) == [t |-> "number", s |-> <<>>, n |-> n]

\* !v
Falsy(v) ==
    \/ v.t \in {"null", "undefined"}
    \/ v.t = "string" /\ v.s = <<>>
    \/ v.t = "number" /\ v.n = 0

\* String(v)
String(v) ==
    CASE v.t = "string" -> v.s
      [] v.t = "number" -> NumToString(v.n)
      [] v.t = "null" -> <<"n","u","l","l">>
      [] OTHER -> <<"u","n","d","e","f","i","n","e","d">>

-----------------------------------------------------------------------------
(* Errors.  A message is a sequence of pieces; status and endpoint are     *)
(* <<>> for null/undefined and <<x>> for the value x.                      *)

NoError == [name |-> "none", message |-> <<>>, status |-> <<>>, endpoint |-> <<>>]

\* class PokemonAPIError
PokemonAPIError(message, status, endpoint) ==
    [name |-> "PokemonAPIError", message |-> message, status |-> status,
     endpoint |-> endpoint]

\* class NetworkError
NetworkError(message, endpoint) ==
    [name |-> "NetworkError", message |-> message, status |-> <<>>,
     endpoint |-> endpoint]

\* an error of the platform: TypeError, SyntaxError, ...
NativeError(name, message) ==
    [name |-> name, message |-> message, status |-> <<>>, endpoint |-> <<>>]

\* what fetch() rejects with when the transport fails: Chromium, Node, Firefox
\* and WebKit word it differently
FailedToFetch == NativeError("TypeError", <<"Failed", " ", "to", " ", "fetch">>)
FetchFailed == NativeError("TypeError", <<"fetch", " ", "failed">>)
LoadFailed == NativeError("TypeError", <<"Load", " ", "failed">>)
\* what response.json() rejects with on a body that is not JSON
BadJson == NativeError("SyntaxError", <<"Unexpected", " ", "token">>)

\* message.includes('fetch'), a message being a sequence of words
IncludesFetch(message) == "fetch" \in Range(message)

-----------------------------------------------------------------------------
(* Decoded JSON bodies.  `fields` is the set of properties of the value    *)
(* that are truthy; "resultsArray" stands for Array.isArray(v.results);    *)
(* `items` are the elements of v.results; `tag` tells apart two bodies of  *)
(* one shape (for a string, its length).                                   *)

JNull == [t |-> "null", fields |-> {}, items |-> <<>>, tag |-> 0]
JString(len) == [t |-> "string", fields |-> {}, items |-> <<>>, tag |-> len]
JArray(tag) == [t |-> "array", fields |-> {}, items |-> <<>>, tag |-> tag]
JObject(fields, items, tag) ==
    [t |-> "object", fields |-> fields, items |-> items, tag |-> tag]

\* an element of results
Entry(fields) == [t |-> "object", fields |-> fields]
NullEntry == [t |-> "null", fields |-> {}]

\* if (v)
Truthy(v) == v.t \in {"object", "array"} \/ (v.t = "string" /\ v.tag > 0)

\* typeof v === 'object'
TypeofObject(v) == v.t \in {"object", "array", "null"}

PokemonBody(tag) == JObject({"id", "name", "sprites"}, <<>>, tag)
SpeciesBody(tag) == JObject({"id", "name"}, <<>>, tag)
ListBody(items, tag) == JObject({"results", "resultsArray"}, items, tag)
GoodEntry == Entry({"name", "url"})

-----------------------------------------------------------------------------
(* HTTP responses.  contentType is <<>> when the header is absent;         *)
(* bodyError is <<>> when response.json() fulfils with `body`, <<e>> when  *)
(* it rejects with e.                                                      *)

Response(status, statusText, contentType, bodyError, body) ==
    [status |-> status, statusText |-> statusText, contentType |-> contentType,
     bodyError |-> bodyError, body |-> body]

JsonType == <<"application/json">>
JsonTypeUtf8 == <<"application/json", "; charset=utf-8">>
TextType == <<"text/plain">>

Ok(body) == Response(200, "OK", JsonType, <<>>, body)
Status(status) == Response(status, "Error", JsonType, <<>>, JObject({}, <<>>, 0))

\* response.ok
ResponseOk(response) == response.status \in 200..299

\* the outcome of a fetch(): a response, or a rejection
Fulfils(response) == [rejects |-> FALSE, error |-> NoError, response |-> response]
Rejects(error) == [rejects |-> TRUE, error |-> error, response |-> Status(0)]

-----------------------------------------------------------------------------
(* Settled or pending promises *)

Pending == [state |-> "pending", value |-> JNull, error |-> NoError]
Fulfilled(value) == [state |-> "fulfilled", value |-> value, error |-> NoError]
Rejected(error) == [state |-> "rejected", value |-> JNull, error |-> error]

-----------------------------------------------------------------------------
(* ResultCache *)

CACHE_DURATION == 5 * 60 * 1000

\* new URLSearchParams(params).toString() for an object whose properties
\* are the <<name, value>> pairs of `params`, in the order in which the
\* object lists them: name=value joined by "&" in that order (names and
\* values here are letters and digits, which are not escaped)
RECURSIVE URLSearchParamsToString(_)
URLSearchParamsToString(params) ==
    IF params = <<>> THEN <<>>
    ELSE <<params[1][1], "=">> \o params[1][2]
             \o (IF Len(params) = 1 THEN <<>>
                 ELSE <<"&">> \o URLSearchParamsToString(Tail(params)))

\* getCacheKey(url, params)
getCacheKeyOf(url, params) ==
    IF Len(params) > 0
    THEN url \o <<"?">> \o URLSearchParamsToString(params)
    ELSE url

\* getCacheKey(url) with no params, and getCacheKey(url, {limit, offset})
getCacheKey(url) == getCacheKeyOf(url, <<>>)
getCacheKeyList(url, limit, offset) ==
    getCacheKeyOf(url, <<<<"limit", NumToString(limit)>>,
                         <<"offset", NumToString(offset)>>>>)

\* getCachedData with the duration taken for seconds
getCachedDataInSeconds(c, key, t) ==
    IF key \in DOMAIN c /\ t - c[key].timestamp < 5 * 60
    THEN c[key].data
    ELSE JNull

\* getCachedData(key): the value returned (null when there is none) ...
getCachedData(c, key, t) ==
    IF key \in DOMAIN c /\ t - c[key].timestamp < CACHE_DURATION
    THEN c[key].data
    ELSE JNull

\* getCachedData without the eviction of a stale entry
CacheAfterGetKeepsStale(c, key, t) == c

\* ... and the cache it leaves
CacheAfterGet(c, key, t) ==
    IF key \in DOMAIN c /\ ~(t - c[key].timestamp < CACHE_DURATION)
    THEN [k \in DOMAIN c \ {key} |-> c[k]]
    ELSE c

\* setCachedData keeping the entry a key already has
setCachedDataIfAbsent(c, key, data, t, writer) ==
    [k \in DOMAIN c \cup {key} |->
        IF k \in DOMAIN c THEN c[k]
        ELSE [data |-> data, timestamp |-> t, writer |-> writer]]

\* setCachedData stamping the entry with the time the module was loaded
setCachedDataAtZero(c, key, data, t, writer) ==
    [k \in DOMAIN c \cup {key} |->
        IF k = key THEN [data |-> data, timestamp |-> 0, writer |-> writer]
        ELSE c[k]]

\* setCachedData(key, data); `writer` records the call that wrote the entry
setCachedData(c, key, data, t, writer) ==
    [k \in DOMAIN c \cup {key} |->
        IF k = key THEN [data |-> data, timestamp |-> t, writer |-> writer]
        ELSE c[k]]

\* getCacheStats counting an entry as valid up to and including
\* CACHE_DURATION
getCacheStatsInclusive(c, t) ==
    [totalEntries |-> Cardinality(DOMAIN c),
     validEntries |->
         Cardinality({k \in DOMAIN c : t - c[k].timestamp <= CACHE_DURATION}),
     expiredEntries |->
         Cardinality({k \in DOMAIN c : ~(t - c[k].timestamp <= CACHE_DURATION)}),
     cacheDuration |-> CACHE_DURATION]

\* getCacheStats(): one pass over the entries
getCacheStats(c, t) ==
    [totalEntries |-> Cardinality(DOMAIN c),
     validEntries |->
         Cardinality({k \in DOMAIN c : t - c[k].timestamp < CACHE_DURATION}),
     expiredEntries |->
         Cardinality({k \in DOMAIN c : ~(t - c[k].timestamp < CACHE_DURATION)}),
     cacheDuration |-> CACHE_DURATION]

EmptyCache == [k \in {} |-> 0]

-----------------------------------------------------------------------------
(* LoadingStateRegistry *)

Operations == {"searchPokemon", "getPokemonList", "getPokemonSpecies"}

InitialLoadingStates == [o \in Operations |-> FALSE]

\* The identity of an object.  The object `loadingStates` names is
\* RegistryRef; `{ ...loadingStates }` makes a new object each time it is
\* evaluated: the i-th copy made on behalf of call src when it sets its
\* flag to isLoading, or (i = 0) the copy getLoadingStates call src returns.
RegistryRef == <<0, FALSE, 0>>
CopyRef(src, isLoading, i) == <<src, isLoading, i>>

\* getLoadingStates returning the object itself
getLoadingStatesAliased(ls, id) == [ref |-> RegistryRef, snapshot |-> ls]

\* getLoadingStates(): ({ ...loadingStates })
getLoadingStates(ls, id) == [ref |-> CopyRef(id, FALSE, 0), snapshot |-> ls]

\* updateLoadingState replacing the object instead of one property
updateLoadingStateReplacing(ls, operation, isLoading) ==
    [o \in DOMAIN ls |-> IF o = operation THEN isLoading ELSE FALSE]

\* updateLoadingState that sets a flag and never clears it
updateLoadingStateSetOnly(ls, operation, isLoading) ==
    [ls EXCEPT ![operation] = @ \/ isLoading]

\* updateLoadingState(operation, isLoading): the flags it leaves ...
updateLoadingState(ls, operation, isLoading) ==
    [ls EXCEPT ![operation] = isLoading]

\* updateLoadingState invoking the callbacks before the assignment
NotificationsBeforeUpdate(subs, ls, operation, isLoading, src) ==
    [i \in DOMAIN subs |->
        [cb |-> subs[i], snapshot |-> ls,
         operation |-> operation, isLoading |-> isLoading, src |-> src,
         ref |-> CopyRef(src, isLoading, i)]]

\* updateLoadingState handing the callbacks the change instead of the
\* snapshot
NotificationsOfChange(subs, ls, operation, isLoading, src) ==
    [i \in DOMAIN subs |->
        [cb |-> subs[i], snapshot |-> [o \in {operation} |-> isLoading],
         operation |-> operation, isLoading |-> isLoading, src |-> src,
         ref |-> CopyRef(src, isLoading, i)]]

\* ... and the callbacks it invokes, each with a copy of the new snapshot;
\* `src` records the call on whose behalf the update was made
Notifications(subs, ls, operation, isLoading, src) ==
    [i \in DOMAIN subs |->
        [cb |-> subs[i], snapshot |-> updateLoadingState(ls, operation, isLoading),
         operation |-> operation, isLoading |-> isLoading, src |-> src,
         ref |-> CopyRef(src, isLoading, i)]]

-----------------------------------------------------------------------------
(* RequestExecutor: fetchWithErrorHandling, its synchronous pieces *)

Msg(text) == <<text>>

\* the classification with the test for 5xx widened to 4xx
StatusErrorFrom400(response, url) ==
    IF response.status = 404
    THEN PokemonAPIError(Msg("Resource not found!"), <<404>>, <<url>>)
    ELSE IF response.status >= 400
    THEN PokemonAPIError(<<"Server error: ", response.statusText>>,
                         <<response.status>>, <<url>>)
    ELSE PokemonAPIError(<<"HTTP Error: ">> \o NumToString(response.status)
                             \o <<" ", response.statusText>>,
                         <<response.status>>, <<url>>)

\* the throw for a response that is not ok
StatusError(response, url) ==
    CASE response.status = 404 ->
            PokemonAPIError(Msg("Resource not found!"), <<404>>, <<url>>)
      [] response.status # 404 /\ response.status >= 500 ->
            PokemonAPIError(<<"Server error: ", response.statusText>>,
                            <<response.status>>, <<url>>)
      [] response.status # 404 /\ response.status < 500 /\ response.status = 429 ->
            PokemonAPIError(Msg("Too many requests. Please try again later."),
                            <<429>>, <<url>>)
      [] OTHER ->
            PokemonAPIError(<<"HTTP Error: ">> \o NumToString(response.status)
                                \o <<" ", response.statusText>>,
                            <<response.status>>, <<url>>)

\* the content type compared with 'application/json' as a whole
NotJsonTypeExact(contentType) ==
    contentType # <<"application/json">>

\* !contentType || !contentType.includes('application/json')
NotJsonType(contentType) ==
    contentType = <<>> \/ "application/json" \notin Range(contentType)

\* the catch block: what it throws for the error it caught
ExecutorCatch(error, url) ==
    CASE error.name = "PokemonAPIError" -> error
      [] error.name # "PokemonAPIError" /\ error.name = "TypeError"
            /\ IncludesFetch(error.message) ->
            NetworkError(Msg("Network error: Please check your internet connection"),
                         <<url>>)
      [] error.name # "PokemonAPIError"
            /\ ~(error.name = "TypeError" /\ IncludesFetch(error.message))
            /\ error.name = "SyntaxError" ->
            PokemonAPIError(Msg("Invalid JSON response"), <<>>, <<url>>)
      [] OTHER ->
            PokemonAPIError(<<"Unexpected error: ">> \o error.message, <<>>, <<url>>)

\* from the settlement of fetch(url) to the next await: <<>> when the code
\* goes on to await response.json(), <<e>> when it throws e
AfterFetch(outcome, url) ==
    IF outcome.rejects THEN <<ExecutorCatch(outcome.error, url)>>
    ELSE IF ~ResponseOk(outcome.response)
         THEN <<ExecutorCatch(StatusError(outcome.response, url), url)>>
    ELSE IF NotJsonType(outcome.response.contentType)
         THEN <<ExecutorCatch(
                  PokemonAPIError(Msg("Invalid response format. Expected JSON"),
                                  <<outcome.response.status>>, <<url>>), url)>>
    ELSE <<>>

\* from the settlement of response.json() to the return
AfterJson(response, url) ==
    IF response.bodyError # <<>>
    THEN Rejected(ExecutorCatch(response.bodyError[1], url))
    ELSE IF ~Truthy(response.body) \/ ~TypeofObject(response.body)
         THEN Rejected(ExecutorCatch(
                  PokemonAPIError(Msg("Invalid response data"),
                                  <<response.status>>, <<url>>), url))
    ELSE Fulfilled(response.body)

-----------------------------------------------------------------------------
(* DomainOperations: their synchronous pieces *)

PokemonUrl == <<"https://pokeapi.co/api/v2/pokemon/">>
PokemonListUrl == <<"https://pokeapi.co/api/v2/pokemon">>
SpeciesUrl == <<"https://pokeapi.co/api/v2/pokemon-species/">>

\* the normalization of getPokemonSpecies applied to the query
normalizedQueryTrimOnly(query) == trim(String(query))

\* searchPokemon: String(query).toLowerCase().trim()
normalizedQuery(query) == trim(toLowerCase(String(query)))

\* getPokemonSpecies: String(id).trim()
normalizedId(id) == trim(String(id))

\* searchPokemon, the checks of its argument: <<>> or the error thrown
searchPokemonInvalid(query) ==
    IF Falsy(query)
    THEN <<PokemonAPIError(<<"Query parameter is required", "!">>, <<>>, <<>>)>>
    ELSE IF normalizedQuery(query) = <<>>
    THEN <<PokemonAPIError(Msg("Query parameter cannot be empty"), <<>>, <<>>)>>
    ELSE IF ~MatchesNamePattern(normalizedQuery(query))
    THEN <<PokemonAPIError(
             Msg("Query must contain only alphanumeric characters and hyphens"),
             <<>>, <<>>)>>
    ELSE <<>>

\* getPokemonSpecies, the checks of its argument
getPokemonSpeciesInvalid(id) ==
    IF Falsy(id)
    THEN <<PokemonAPIError(Msg("ID parameter is required"), <<>>, <<>>)>>
    ELSE IF normalizedId(id) = <<>>
    THEN <<PokemonAPIError(Msg("ID parameter cannot be empty"), <<>>, <<>>)>>
    ELSE IF ~MatchesNamePattern(normalizedId(id))
    THEN <<PokemonAPIError(
             Msg("ID must contain only alphanumeric characters and hyphens"),
             <<>>, <<>>)>>
    ELSE <<>>

\* getPokemonList without the check of the offset
getPokemonListInvalidLimitOnly(limit, offset) ==
    IF limit < 1 \/ limit > 1000
    THEN <<PokemonAPIError(Msg("Limit must be between 1 and 1000"), <<>>, <<>>)>>
    ELSE <<>>

\* getPokemonList checking the offset before the limit
getPokemonListInvalidOffsetFirst(limit, offset) ==
    IF offset < 0
    THEN <<PokemonAPIError(Msg("Offset must be 0 or greater"), <<>>, <<>>)>>
    ELSE IF limit < 1 \/ limit > 1000
    THEN <<PokemonAPIError(Msg("Limit must be between 1 and 1000"), <<>>, <<>>)>>
    ELSE <<>>

\* getPokemonList, the checks of its arguments
getPokemonListInvalid(limit, offset) ==
    IF limit < 1 \/ limit > 1000
    THEN <<PokemonAPIError(Msg("Limit must be between 1 and 1000"), <<>>, <<>>)>>
    ELSE IF offset < 0
    THEN <<PokemonAPIError(Msg("Offset must be 0 or greater"), <<>>, <<>>)>>
    ELSE <<>>

\* batchFetchPokemon without the check of its argument
batchFetchInvalidNever(isArray) == <<>>

\* batchFetchPokemon, the check of its argument
batchFetchInvalid(isArray) ==
    IF ~isArray
    THEN <<PokemonAPIError(Msg("URLs parameter must be an array"), <<>>, <<>>)>>
    ELSE <<>>

\* a call of an exposed operation
NewCall(op) ==
    [op |-> op, query |-> JsUndefined, limit |-> 0, offset |-> 0,
     urls |-> <<>>, isArray |-> TRUE, batchSize |-> 0,
     pc |-> "done", url |-> <<>>, key |-> <<>>,
     response |-> Status(0), exec |-> Pending, result |-> Pending,
     seen |-> <<>>, startedAt |-> 0,
     next |-> 0, items |-> <<>>, results |-> <<>>,
     parent |-> 0, parts |-> <<>>, held |-> <<>>, stats |-> <<>>]

\* searchPokemon with the normalized query in the message of the remap
searchPokemonSettleNormalized(call) ==
    IF call.exec.state = "fulfilled"
    THEN IF {"id", "name", "sprites"} \subseteq call.exec.value.fields
         THEN Fulfilled(call.exec.value)
         ELSE Rejected(PokemonAPIError(
                  Msg("Invalid Pokemon data structure received"), <<>>, <<call.url>>))
    ELSE IF call.exec.error.status = <<404>>
         THEN Rejected(PokemonAPIError(
                  <<"Pokemon \"">> \o normalizedQuery(call.query) \o <<"\" not found">>,
                  <<404>>, <<call.url>>))
         ELSE Rejected(call.exec.error)

\* searchPokemon after fetchWithErrorHandling settled: the try and the catch
searchPokemonSettle(call) ==
    IF call.exec.state = "fulfilled"
    THEN IF {"id", "name", "sprites"} \subseteq call.exec.value.fields
         THEN Fulfilled(call.exec.value)
         ELSE Rejected(PokemonAPIError(
                  Msg("Invalid Pokemon data structure received"), <<>>, <<call.url>>))
    ELSE IF call.exec.error.status = <<404>>
         THEN Rejected(PokemonAPIError(
                  <<"Pokemon \"">> \o String(call.query) \o <<"\" not found">>,
                  <<404>>, <<call.url>>))
         ELSE Rejected(call.exec.error)

\* getPokemonSpecies after fetchWithErrorHandling settled
getPokemonSpeciesSettle(call) ==
    IF call.exec.state = "fulfilled"
    THEN IF {"id", "name"} \subseteq call.exec.value.fields
         THEN Fulfilled(call.exec.value)
         ELSE Rejected(PokemonAPIError(
                  Msg("Invalid Pokemon species data structure received"),
                  <<>>, <<call.url>>))
    ELSE IF call.exec.error.status = <<404>>
         THEN Rejected(PokemonAPIError(
                  <<"Pokemon species with ID \"">> \o String(call.query)
                      \o <<"\" not found">>,
                  <<404>>, <<call.url>>))
         ELSE Rejected(call.exec.error)

\* getPokemonList after fetchWithErrorHandling settled; reading .name of a
\* null element of results throws a TypeError, which the catch rethrows
getPokemonListSettle(call) ==
    IF call.exec.state = "fulfilled"
    THEN LET data == call.exec.value
         IN  IF ~({"results", "resultsArray"} \subseteq data.fields)
             THEN Rejected(PokemonAPIError(
                      Msg("Invalid Pokemon list data structure received"),
                      <<>>, <<call.url>>))
             ELSE IF \E i \in DOMAIN data.items : data.items[i].t = "null"
             THEN Rejected(NativeError("TypeError",
                      <<"Cannot", " ", "read", " ", "properties", " ", "of", " ", "null">>))
             ELSE IF \E i \in DOMAIN data.items :
                        ~({"name", "url"} \subseteq data.items[i].fields)
             THEN Rejected(PokemonAPIError(
                      Msg("Some Pokemon entries have invalid data structure"),
                      <<>>, <<call.url>>))
             ELSE Fulfilled(data)
    ELSE Rejected(call.exec.error)

Settle(call) ==
    CASE call.op = "searchPokemon" -> searchPokemonSettle(call)
      [] call.op = "getPokemonSpecies" -> getPokemonSpeciesSettle(call)
      [] OTHER -> getPokemonListSettle(call)

-----------------------------------------------------------------------------
(* The state after the module is loaded *)

Init ==
    /\ now = 0
    /\ cache = EmptyCache
    /\ loadingStates = InitialLoadingStates
    /\ subscribers = <<>>
    /\ calls = <<>>
    /\ fetchLog = <<>>
    /\ notifyLog = <<>>
    /\ errorLog = <<>>

-----------------------------------------------------------------------------
(* fetchWithErrorHandling *)

\* the loading-end at the end of the try block instead of in a finally block
FlagsAtExitOfTry(ls, operation, exec) ==
    IF exec.state = "fulfilled" THEN updateLoadingState(ls, operation, FALSE) ELSE ls

\* the finally block clearing the flag only when no other request of the
\* operation is in flight
FlagsAtExitCounting(ls, operation, exec) ==
    IF Cardinality({i \in DOMAIN calls :
                       calls[i].op = operation /\ calls[i].pc \in {"fetch", "json"}}) > 1
    THEN ls
    ELSE updateLoadingState(ls, operation, FALSE)

\* the finally block: the flags it leaves and the callbacks it invokes,
\* whatever `exec`, the outcome of the try and the catch, is
FlagsAtExit(ls, operation, exec) == updateLoadingState(ls, operation, FALSE)

NotificationsAtExit(subs, ls, operation, exec, src) ==
    Notifications(subs, ls, operation, FALSE, src)

\* the number of calls made from outside the module
\* (getCacheStats calls have a bound of their own)
Called ==
    Cardinality({i \in DOMAIN calls :
                    calls[i].parent = 0 /\ calls[i].op # "getCacheStats"})

\* the part of the state a domain operation changes before its first await
Current ==
    [calls |-> calls, cache |-> cache, loadingStates |-> loadingStates,
     notifyLog |-> notifyLog, fetchLog |-> fetchLog]

\* a domain operation announcing that it loads before it looks in the cache
BeginStateAnnouncing(st, call, invalid, url, key) ==
    LET id == Len(st.calls) + 1
        cachedData == getCachedData(st.cache, key, now)
        started == [call EXCEPT !.startedAt = now]
    IN  IF invalid # <<>>
        THEN [st EXCEPT !.calls = Append(@, [started EXCEPT
                                      !.result = Rejected(invalid[1])])]
        ELSE IF Truthy(cachedData)
        THEN [st EXCEPT !.calls = Append(@, [started EXCEPT
                                      !.url = url, !.key = key,
                                      !.seen = <<st.cache[key]>>,
                                      !.result = Fulfilled(cachedData)]),
                        !.cache = CacheAfterGet(@, key, now),
                        !.loadingStates = updateLoadingState(@, call.op, TRUE),
                        !.notifyLog = @ \o Notifications(subscribers,
                                               st.loadingStates, call.op, TRUE, id)]
        ELSE [st EXCEPT !.calls = Append(@, [started EXCEPT
                                      !.url = url, !.key = key, !.pc = "fetch",
                                      !.seen = IF key \in DOMAIN st.cache
                                               THEN <<st.cache[key]>> ELSE <<>>]),
                        !.cache = CacheAfterGet(@, key, now),
                        !.loadingStates = updateLoadingState(@, call.op, TRUE),
                        !.notifyLog = @ \o Notifications(subscribers,
                                               st.loadingStates, call.op, TRUE, id),
                        !.fetchLog = Append(@, [url |-> url, call |-> id])]

\* A domain operation from its call to its first await, as a function of
\* the state `st`.  `call` carries the arguments, `invalid` the outcome of
\* the argument checks, `url` the URL fetched and `key` the cache key.
BeginState(st, call, invalid, url, key) ==
    LET id == Len(st.calls) + 1
        cachedData == getCachedData(st.cache, key, now)
        started == [call EXCEPT !.startedAt = now]
    IN  IF invalid # <<>>
        THEN [st EXCEPT !.calls = Append(@, [started EXCEPT
                                      !.result = Rejected(invalid[1])])]
        ELSE IF Truthy(cachedData)
        THEN [st EXCEPT !.calls = Append(@, [started EXCEPT
                                      !.url = url, !.key = key,
                                      !.seen = <<st.cache[key]>>,
                                      !.result = Fulfilled(cachedData)]),
                        !.cache = CacheAfterGet(@, key, now)]
        ELSE [st EXCEPT !.calls = Append(@, [started EXCEPT
                                      !.url = url, !.key = key, !.pc = "fetch",
                                      !.seen = IF key \in DOMAIN st.cache
                                               THEN <<st.cache[key]>> ELSE <<>>]),
                        !.cache = CacheAfterGet(@, key, now),
                        !.loadingStates = updateLoadingState(@, call.op, TRUE),
                        !.notifyLog = @ \o Notifications(subscribers,
                                               st.loadingStates, call.op, TRUE, id),
                        !.fetchLog = Append(@, [url |-> url, call |-> id])]

\* a domain operation called on its own
Begin(call, invalid, url, key) ==
    LET st == BeginState(Current, call, invalid, url, key)
    IN  /\ Called < MaxCalls
        /\ calls' = st.calls
        /\ cache' = st.cache
        /\ loadingStates' = st.loadingStates
        /\ notifyLog' = st.notifyLog
        /\ fetchLog' = st.fetchLog
        /\ UNCHANGED <<now, subscribers, errorLog>>

\* searchPokemon(query)
CallSearchPokemon(query) ==
    Begin([NewCall("searchPokemon") EXCEPT !.query = query],
          searchPokemonInvalid(query),
          PokemonUrl \o normalizedQuery(query),
          getCacheKey(PokemonUrl \o normalizedQuery(query)))

\* getPokemonSpecies(id)
CallGetPokemonSpecies(id) ==
    Begin([NewCall("getPokemonSpecies") EXCEPT !.query = id],
          getPokemonSpeciesInvalid(id),
          SpeciesUrl \o normalizedId(id),
          getCacheKey(SpeciesUrl \o normalizedId(id)))

\* `${url}?limit=${limit}&offset=${offset}`
ListFullUrl(limit, offset) ==
    PokemonListUrl \o <<"?">> \o <<"limit=">> \o NumToString(limit)
        \o <<"&">> \o <<"offset=">> \o NumToString(offset)

\* getPokemonList(limit, offset)
CallGetPokemonList(limit, offset) ==
    IF getPokemonListInvalid(limit, offset) # <<>>
    THEN Begin([NewCall("getPokemonList") EXCEPT !.limit = limit, !.offset = offset],
               getPokemonListInvalid(limit, offset), <<>>, <<>>)
    ELSE Begin([NewCall("getPokemonList") EXCEPT !.limit = limit, !.offset = offset],
               <<>>, ListFullUrl(limit, offset),
               getCacheKeyList(PokemonListUrl, limit, offset))

\* the executor issuing its request once more when the first attempt ends
\* in a throw
FetchSettlesRetrying(id, outcome) ==
    LET call == calls[id]
        thrown == AfterFetch(outcome, call.url)
        first == Cardinality({n \in DOMAIN fetchLog : fetchLog[n].call = id}) = 1
    IN  /\ call.pc = "fetch"
        /\ IF thrown # <<>> /\ first
           THEN /\ fetchLog' = Append(fetchLog, [url |-> call.url, call |-> id])
                /\ UNCHANGED <<calls, loadingStates, notifyLog>>
           ELSE IF thrown = <<>>
           THEN /\ calls' = [calls EXCEPT ![id].pc = "json",
                                          ![id].response = outcome.response]
                /\ UNCHANGED <<loadingStates, notifyLog, fetchLog>>
           ELSE /\ calls' = [calls EXCEPT ![id].pc = "exec",
                                          ![id].exec = Rejected(thrown[1]),
                                          ![id].response =
                                              IF outcome.rejects THEN @
                                              ELSE outcome.response]
                /\ loadingStates' =
                       FlagsAtExit(loadingStates, call.op, Rejected(thrown[1]))
                /\ notifyLog' = notifyLog \o
                       NotificationsAtExit(subscribers, loadingStates, call.op,
                                           Rejected(thrown[1]), id)
                /\ UNCHANGED fetchLog
        /\ UNCHANGED <<now, cache, subscribers, errorLog>>

\* fetch(url) settles with `outcome`: the executor runs to
\* `await response.json()`, or throws and runs its finally block
FetchSettles(id, outcome) ==
    LET call == calls[id]
        thrown == AfterFetch(outcome, call.url)
    IN  /\ call.pc = "fetch"
        /\ IF thrown = <<>>
           THEN /\ calls' = [calls EXCEPT ![id].pc = "json",
                                          ![id].response = outcome.response]
                /\ UNCHANGED <<loadingStates, notifyLog>>
           ELSE /\ calls' = [calls EXCEPT ![id].pc = "exec",
                                          ![id].exec = Rejected(thrown[1]),
                                          ![id].response =
                                              IF outcome.rejects THEN @
                                              ELSE outcome.response]
                /\ loadingStates' =
                       FlagsAtExit(loadingStates, call.op, Rejected(thrown[1]))
                /\ notifyLog' = notifyLog \o
                       NotificationsAtExit(subscribers, loadingStates, call.op,
                                           Rejected(thrown[1]), id)
        /\ UNCHANGED <<now, cache, subscribers, fetchLog, errorLog>>

\* response.json() settles: the executor validates, returns or throws, and
\* runs its finally block
JsonSettles(id) ==
    LET call == calls[id]
        exec == AfterJson(call.response, call.url)
    IN  /\ call.pc = "json"
        /\ calls' = [calls EXCEPT ![id].pc = "exec", ![id].exec = exec]
        /\ loadingStates' = FlagsAtExit(loadingStates, call.op, exec)
        /\ notifyLog' = notifyLog \o
               NotificationsAtExit(subscribers, loadingStates, call.op, exec, id)
        /\ UNCHANGED <<now, cache, subscribers, fetchLog, errorLog>>

-----------------------------------------------------------------------------
(* getPokemonWithSpecies *)

\* { pokemon: pokemonData, species: speciesData }
Combined(pokemonData, speciesData) ==
    JObject({"pokemon", "species"}, <<pokemonData, speciesData>>, 0)

\* Promise.all settling only when every promise has settled
PromiseAllWaitsForAll(cs, parts, current) ==
    IF current.state # "pending" THEN current
    ELSE IF \E k \in DOMAIN parts : cs[parts[k]].result.state = "pending"
    THEN Pending
    ELSE IF \E k \in DOMAIN parts : cs[parts[k]].result.state = "rejected"
    THEN LET k == CHOOSE k \in DOMAIN parts :
                     /\ cs[parts[k]].result.state = "rejected"
                     /\ \A j \in DOMAIN parts :
                           cs[parts[j]].result.state = "rejected" => k <= j
         IN  Rejected(cs[parts[k]].result.error)
    ELSE Fulfilled(Combined(cs[parts[1]].result.value, cs[parts[2]].result.value))

\* await Promise.all([...]) followed by the return, or the rethrow of the
\* catch block: the promise of getPokemonWithSpecies given the promises
\* `parts` of the calls `cs` and what it was, `current`.  It is evaluated
\* when the operation is called and whenever a part settles, so at most one
\* part has rejected since it was pending, except at the call, where the
\* reactions run in the order of the array.
PromiseAll(cs, parts, current) ==
    IF current.state # "pending" THEN current
    ELSE IF \E k \in DOMAIN parts : cs[parts[k]].result.state = "rejected"
    THEN LET k == CHOOSE k \in DOMAIN parts :
                     /\ cs[parts[k]].result.state = "rejected"
                     /\ \A j \in DOMAIN parts :
                           cs[parts[j]].result.state = "rejected" => k <= j
         IN  Rejected(cs[parts[k]].result.error)
    ELSE IF \A k \in DOMAIN parts : cs[parts[k]].result.state = "fulfilled"
    THEN Fulfilled(Combined(cs[parts[1]].result.value, cs[parts[2]].result.value))
    ELSE Pending

\* the rejection of the getPokemonWithSpecies call ending the parts that
\* are still running
PropagateAborting(cs, id) ==
    IF cs[id].parent = 0 THEN cs
    ELSE LET p == cs[id].parent
             result == PromiseAll(cs, cs[p].parts, cs[p].result)
         IN  [i \in DOMAIN cs |->
                 IF i = p
                 THEN [cs[i] EXCEPT !.result = result,
                                    !.pc = IF result.state = "pending"
                                           THEN "all" ELSE "done"]
                 ELSE IF result.state = "rejected" /\ cs[i].parent = p
                         /\ cs[i].pc # "done"
                 THEN [cs[i] EXCEPT !.pc = "done", !.result = result]
                 ELSE cs[i]]

\* the reactions to the settlement of call id: the promise of the
\* getPokemonWithSpecies call that started it, if any
Propagate(cs, id) ==
    IF cs[id].parent = 0 THEN cs
    ELSE LET p == cs[id].parent
             result == PromiseAll(cs, cs[p].parts, cs[p].result)
         IN  [cs EXCEPT ![p].result = result,
                        ![p].pc = IF result.state = "pending" THEN "all" ELSE "done"]

\* getPokemonWithSpecies(query), to its await: searchPokemon(query) runs to
\* its first await, then getPokemonSpecies(query) to its first await
CallGetPokemonWithSpecies(query) ==
    LET first == Len(calls) + 1
        st1 == BeginState(Current,
                   [NewCall("searchPokemon") EXCEPT !.query = query,
                                                    !.parent = first + 2],
                   searchPokemonInvalid(query),
                   PokemonUrl \o normalizedQuery(query),
                   getCacheKey(PokemonUrl \o normalizedQuery(query)))
        st2 == BeginState(st1,
                   [NewCall("getPokemonSpecies") EXCEPT !.query = query,
                                                        !.parent = first + 2],
                   getPokemonSpeciesInvalid(query),
                   SpeciesUrl \o normalizedId(query),
                   getCacheKey(SpeciesUrl \o normalizedId(query)))
        parts == <<first, first + 1>>
        result == PromiseAll(st2.calls, parts, Pending)
    IN  /\ Called < MaxCalls
        /\ calls' = Append(st2.calls,
                       [NewCall("getPokemonWithSpecies") EXCEPT
                           !.query = query, !.parts = parts, !.startedAt = now,
                           !.result = result,
                           !.pc = IF result.state = "pending" THEN "all" ELSE "done"])
        /\ cache' = st2.cache
        /\ loadingStates' = st2.loadingStates
        /\ notifyLog' = st2.notifyLog
        /\ fetchLog' = st2.fetchLog
        /\ UNCHANGED <<now, subscribers, errorLog>>

\* the domain operation storing the body before it validates its shape
ResumeCachingFirst(id) ==
    LET call == calls[id]
        result == Settle(call)
    IN  /\ call.pc = "exec"
        /\ calls' = Propagate([calls EXCEPT ![id].pc = "done",
                                            ![id].result = result], id)
        /\ cache' = IF call.exec.state = "fulfilled"
                    THEN setCachedData(cache, call.key, call.exec.value, now, id)
                    ELSE cache
        /\ UNCHANGED <<now, loadingStates, subscribers, fetchLog, notifyLog,
                       errorLog>>

\* the domain operation resumes after `await fetchWithErrorHandling(...)`:
\* shape validation, setCachedData, return; or its catch block
Resume(id) ==
    LET call == calls[id]
        result == Settle(call)
    IN  /\ call.pc = "exec"
        /\ calls' = Propagate([calls EXCEPT ![id].pc = "done",
                                            ![id].result = result], id)
        /\ cache' = IF result.state = "fulfilled"
                    THEN setCachedData(cache, call.key, result.value, now, id)
                    ELSE cache
        /\ UNCHANGED <<now, loadingStates, subscribers, fetchLog, notifyLog,
                       errorLog>>

-----------------------------------------------------------------------------
(* BatchFetcher: batchFetchPokemon *)

Min(a, b) == IF a < b THEN a ELSE b

Item(pc, value) == [pc |-> pc, response |-> Status(0), value |-> value]

\* batch.map(async (url) => ...) over urls[k..hi], each callback run to its
\* first await: a cache hit returns, a miss issues fetch(url)
RECURSIVE StartItems(_, _, _, _, _, _)
StartItems(st, urls, k, hi, t, id) ==
    IF k > hi THEN st
    ELSE LET cachedData == getCachedData(st.cache, getCacheKey(urls[k]), t)
             after == CacheAfterGet(st.cache, getCacheKey(urls[k]), t)
         IN  IF Truthy(cachedData)
             THEN StartItems([st EXCEPT !.cache = after,
                                        !.items[k] = Item("done", cachedData)],
                             urls, k + 1, hi, t, id)
             ELSE StartItems([st EXCEPT !.cache = after,
                                        !.items[k] = Item("fetch", JNull),
                                        !.fetches = Append(@, [url |-> urls[k],
                                                               call |-> id])],
                             urls, k + 1, hi, t, id)

\* the window reduced to its first item: Promise.all awaiting one promise
WindowFirstOnly(call, i) == {i + 1}

\* the window of the loop index i
Window(call, i) == (i + 1)..Min(i + call.batchSize, Len(call.urls))

\* the survivors of a window pushed last item first
RECURSIVE SurvivorsLastFirst(_, _, _)
SurvivorsLastFirst(items, k, hi) ==
    IF k > hi THEN <<>>
    ELSE SurvivorsLastFirst(items, k + 1, hi)
             \o (IF items[k].value.t # "null" THEN <<items[k].value>> ELSE <<>>)

\* batchResults.filter(result => result !== null), in the order of the window
RECURSIVE Survivors(_, _, _)
Survivors(items, k, hi) ==
    IF k > hi THEN <<>>
    ELSE (IF items[k].value.t # "null" THEN <<items[k].value>> ELSE <<>>)
             \o Survivors(items, k + 1, hi)

\* batchFetchPokemon(urls, batchSize), to its first await
CallBatchFetch(urls, isArray, batchSize) ==
    LET id == Len(calls) + 1
        call == [NewCall("batchFetchPokemon") EXCEPT
                    !.urls = urls, !.isArray = isArray, !.batchSize = batchSize,
                    !.startedAt = now]
        invalid == batchFetchInvalid(isArray)
        st == StartItems([cache |-> cache,
                          items |-> [k \in DOMAIN urls |-> Item("wait", JNull)],
                          fetches |-> <<>>],
                         urls, 1, Min(batchSize, Len(urls)), now, id)
    IN  /\ Called < MaxCalls
        /\ batchSize >= 1
        /\ IF invalid # <<>>
           THEN /\ calls' = Append(calls, [call EXCEPT !.result = Rejected(invalid[1])])
                /\ UNCHANGED <<cache, fetchLog>>
           ELSE IF Len(urls) = 0
           THEN /\ calls' = Append(calls, [call EXCEPT !.result = Fulfilled(JArray(0))])
                /\ UNCHANGED <<cache, fetchLog>>
           ELSE /\ calls' = Append(calls, [call EXCEPT !.pc = "batch",
                                                       !.items = st.items])
                /\ cache' = st.cache
                /\ fetchLog' = fetchLog \o st.fetches
        /\ UNCHANGED <<now, loadingStates, subscribers, notifyLog, errorLog>>

\* fetch(url) of item k settles: the callback runs to `await response.json()`,
\* or throws, logs the error in its catch block and returns null
ItemFetchSettles(id, k, outcome) ==
    LET call == calls[id]
        url == call.urls[k]
    IN  /\ call.pc = "batch"
        /\ k \in DOMAIN call.items
        /\ call.items[k].pc = "fetch"
        /\ IF outcome.rejects
           THEN /\ calls' = [calls EXCEPT ![id].items[k] = Item("done", JNull)]
                /\ errorLog' = Append(errorLog, [url |-> url, call |-> id,
                                                 error |-> outcome.error])
           ELSE IF ~ResponseOk(outcome.response)
           THEN /\ calls' = [calls EXCEPT ![id].items[k] = Item("done", JNull)]
                /\ errorLog' = Append(errorLog,
                       [url |-> url, call |-> id,
                        error |-> PokemonAPIError(
                            <<"Failed to fetch Pokemon from ">> \o url,
                            <<outcome.response.status>>, <<url>>)])
           ELSE /\ calls' = [calls EXCEPT ![id].items[k] =
                                 [pc |-> "json", response |-> outcome.response,
                                  value |-> JNull]]
                /\ UNCHANGED errorLog
        /\ UNCHANGED <<now, cache, loadingStates, subscribers, fetchLog, notifyLog>>

\* the callback of an item announcing the end of a loading as
\* fetchWithErrorHandling does
ItemJsonSettlesThroughExecutor(id, k) ==
    LET call == calls[id]
        url == call.urls[k]
        response == call.items[k].response
    IN  /\ call.pc = "batch"
        /\ k \in DOMAIN call.items
        /\ call.items[k].pc = "json"
        /\ IF response.bodyError # <<>>
           THEN /\ calls' = [calls EXCEPT ![id].items[k] = Item("done", JNull)]
                /\ errorLog' = Append(errorLog,
                       [url |-> url, error |-> response.bodyError[1], call |-> id])
                /\ UNCHANGED cache
           ELSE /\ calls' = [calls EXCEPT ![id].items[k] =
                                 Item("done", response.body)]
                /\ cache' = setCachedData(cache, getCacheKey(url), response.body,
                                          now, id)
                /\ UNCHANGED errorLog
        /\ loadingStates' = updateLoadingState(loadingStates, "searchPokemon", FALSE)
        /\ notifyLog' = notifyLog \o
               Notifications(subscribers, loadingStates, "searchPokemon", FALSE, id)
        /\ UNCHANGED <<now, subscribers, fetchLog>>

\* response.json() of item k settles: setCachedData and return the body, or
\* log the error and return null
ItemJsonSettles(id, k) ==
    LET call == calls[id]
        url == call.urls[k]
        response == call.items[k].response
    IN  /\ call.pc = "batch"
        /\ k \in DOMAIN call.items
        /\ call.items[k].pc = "json"
        /\ IF response.bodyError # <<>>
           THEN /\ calls' = [calls EXCEPT ![id].items[k] = Item("done", JNull)]
                /\ errorLog' = Append(errorLog,
                       [url |-> url, error |-> response.bodyError[1], call |-> id])
                /\ UNCHANGED cache
           ELSE /\ calls' = [calls EXCEPT ![id].items[k] =
                                 Item("done", response.body)]
                /\ cache' = setCachedData(cache, getCacheKey(url), response.body,
                                          now, id)
                /\ UNCHANGED errorLog
        /\ UNCHANGED <<now, loadingStates, subscribers, fetchLog, notifyLog>>

\* the loop of batchFetchPokemon left after its first window
BatchResumeStopping(id) ==
    LET call == calls[id]
        window == Window(call, call.next)
        results == call.results \o
                   Survivors(call.items, call.next + 1,
                             Min(call.next + call.batchSize, Len(call.urls)))
    IN  /\ call.pc = "batch"
        /\ \A k \in window : call.items[k].pc = "done"
        /\ calls' = [calls EXCEPT ![id].results = results,
                                  ![id].next = call.next + call.batchSize,
                                  ![id].pc = "done",
                                  ![id].result = Fulfilled(JArray(Len(results)))]
        /\ UNCHANGED <<now, cache, loadingStates, subscribers, fetchLog,
                       notifyLog, errorLog>>

\* Promise.all of the window settles: push the survivors, then start the
\* next window or return
BatchResume(id) ==
    LET call == calls[id]
        window == Window(call, call.next)
        results == call.results \o
                   Survivors(call.items, call.next + 1,
                             Min(call.next + call.batchSize, Len(call.urls)))
        i == call.next + call.batchSize
        st == StartItems([cache |-> cache, items |-> call.items, fetches |-> <<>>],
                         call.urls, i + 1, Min(i + call.batchSize, Len(call.urls)),
                         now, id)
    IN  /\ call.pc = "batch"
        /\ \A k \in window : call.items[k].pc = "done"
        /\ IF i < Len(call.urls)
           THEN /\ calls' = [calls EXCEPT ![id].results = results, ![id].next = i,
                                          ![id].items = st.items]
                /\ cache' = st.cache
                /\ fetchLog' = fetchLog \o st.fetches
           ELSE /\ calls' = [calls EXCEPT ![id].results = results, ![id].next = i,
                                          ![id].pc = "done",
                                          ![id].result = Fulfilled(JArray(Len(results)))]
                /\ UNCHANGED <<cache, fetchLog>>
        /\ UNCHANGED <<now, loadingStates, subscribers, notifyLog, errorLog>>

-----------------------------------------------------------------------------
(* The environment: the clock, the subscribers, the cache's other callers *)

\* time passes
Tick(d) ==
    /\ now + d <= MaxTicks * CACHE_DURATION
    /\ now' = now + d
    /\ UNCHANGED <<cache, loadingStates, subscribers, calls, fetchLog, notifyLog,
                   errorLog>>

\* unsubscribing that removes nothing
AfterUnsubscribeKeeps(subs, cb) == subs

\* loadingStateSubscribers.add(callback): a Set keeps one copy, in the
\* order of insertion
AfterSubscribe(subs, cb) ==
    IF cb \in Range(subs) THEN subs ELSE Append(subs, cb)

\* loadingStateSubscribers.delete(callback)
AfterUnsubscribe(subs, cb) == SelectSeq(subs, LAMBDA x : x # cb)

\* subscribeToLoadingState(callback)
Subscribe(cb) ==
    /\ subscribers' = AfterSubscribe(subscribers, cb)
    /\ UNCHANGED <<now, cache, loadingStates, calls, fetchLog, notifyLog, errorLog>>

\* the function subscribeToLoadingState returned
Unsubscribe(cb) ==
    /\ subscribers' = AfterUnsubscribe(subscribers, cb)
    /\ UNCHANGED <<now, cache, loadingStates, calls, fetchLog, notifyLog, errorLog>>

\* a caller calls getLoadingStates() and keeps the object returned
CallGetLoadingStates ==
    LET id == Len(calls) + 1
    IN  /\ Called < MaxCalls
        /\ calls' = Append(calls, [NewCall("getLoadingStates") EXCEPT
                               !.startedAt = now,
                               !.held = <<getLoadingStates(loadingStates, id)>>])
        /\ UNCHANGED <<now, cache, loadingStates, subscribers, fetchLog,
                       notifyLog, errorLog>>

\* the objects callers and subscribers were handed
HeldRefs ==
    {notifyLog[n].ref : n \in DOMAIN notifyLog}
        \cup {calls[i].held[1].ref : i \in {j \in DOMAIN calls : calls[j].held # <<>>}}

\* obj.searchPokemon = !obj.searchPokemon
Flipped(obj) == [obj EXCEPT !.searchPokemon = ~@]

\* a caller or a subscriber assigns to a property of the object `ref` it
\* was handed: whoever holds that object sees the assignment
MutateObject(ref) ==
    /\ ref \in HeldRefs
    /\ loadingStates' = IF ref = RegistryRef THEN Flipped(loadingStates)
                        ELSE loadingStates
    /\ notifyLog' = [n \in DOMAIN notifyLog |->
                        IF notifyLog[n].ref = ref
                        THEN [notifyLog[n] EXCEPT !.snapshot = Flipped(@)]
                        ELSE notifyLog[n]]
    /\ calls' = [i \in DOMAIN calls |->
                    IF calls[i].held # <<>> /\ calls[i].held[1].ref = ref
                    THEN [calls[i] EXCEPT !.held[1].snapshot = Flipped(@)]
                    ELSE calls[i]]
    /\ UNCHANGED <<now, cache, subscribers, fetchLog, errorLog>>

\* a caller calls getCacheStats() and keeps the object returned
CallGetCacheStats ==
    /\ Cardinality({i \in DOMAIN calls : calls[i].op = "getCacheStats"}) < MaxStats
    /\ calls' = Append(calls, [NewCall("getCacheStats") EXCEPT
                           !.startedAt = now,
                           !.stats = <<getCacheStats(cache, now)>>])
    /\ UNCHANGED <<now, cache, loadingStates, subscribers, fetchLog, notifyLog,
                   errorLog>>

\* clearCache() removing only the entries that are CACHE_DURATION old
ClearCacheKeepsFresh ==
    /\ cache' = [k \in {k \in DOMAIN cache :
                            now - cache[k].timestamp < CACHE_DURATION} |-> cache[k]]
    /\ UNCHANGED <<now, loadingStates, subscribers, calls, fetchLog, notifyLog,
                   errorLog>>

\* clearCache()
ClearCache ==
    /\ cache' = EmptyCache
    /\ UNCHANGED <<now, loadingStates, subscribers, calls, fetchLog, notifyLog,
                   errorLog>>

-----------------------------------------------------------------------------
(* Inputs *)

Pikachu == <<"p", "i", "k", "a", "c", "h", "u">>
PikachuUpper == <<"P", "I", "K", "A", "C", "H", "U">>

\* a body that lacks id and sprites
BadPokemonBody == JObject({"name"}, <<>>, 3)

\* what the upstream may answer a request with
CacheOutcomes ==
    {Fulfils(Ok(PokemonBody(1))), Fulfils(Ok(PokemonBody(2))),
     Fulfils(Ok(BadPokemonBody))}

TickSteps == {CACHE_DURATION - 1, CACHE_DURATION}

\* the URLs handed to batchFetchPokemon: the one searchPokemon("pikachu")
\* fetches, and one of a list's results
PikachuUrl == PokemonUrl \o Pikachu
FirstUrl == PokemonUrl \o <<"1", "/">>

-----------------------------------------------------------------------------
(* Spec: searchPokemon and batchFetchPokemon, one call after the other,    *)
(* over time                                                               *)

Settles(outcomes) ==
    \/ \E id \in DOMAIN calls, outcome \in outcomes : FetchSettles(id, outcome)
    \/ \E id \in DOMAIN calls : JsonSettles(id)
    \/ \E id \in DOMAIN calls : Resume(id)

BatchSettles(outcomes) ==
    \/ \E id \in DOMAIN calls : \E k \in DOMAIN calls[id].items :
          \E outcome \in outcomes : ItemFetchSettles(id, k, outcome)
    \/ \E id \in DOMAIN calls : \E k \in DOMAIN calls[id].items :
          ItemJsonSettles(id, k)
    \/ \E id \in DOMAIN calls : BatchResume(id)

\* no call is in progress
Idle == \A i \in DOMAIN calls : calls[i].pc = "done"

\* No call, and no item of a batch, is between the settlement of its fetch
\* and its next reading of the clock or the cache.  The segments in between
\* read neither, so with one call at a time a tick or a clearCache() there
\* is the same as one just before that fetch settled.
Waiting ==
    \A i \in DOMAIN calls :
        /\ calls[i].pc \notin {"json", "exec"}
        /\ \A k \in DOMAIN calls[i].items : calls[i].items[k].pc # "json"

Next ==
    \/ Idle /\ CallSearchPokemon(JsStr(Pikachu))
    \/ Idle /\ CallBatchFetch(<<PikachuUrl>>, TRUE, 1)
    \/ Settles(CacheOutcomes)
    \/ BatchSettles(CacheOutcomes)
    \/ Waiting /\ \E d \in TickSteps : Tick(d)
    \/ Waiting /\ ClearCache

Spec == Init /\ [][Next]_vars

-----------------------------------------------------------------------------
(* Observations on the histories *)

\* the fetches call i issued
FetchesOf(i) == Cardinality({n \in DOMAIN fetchLog : fetchLog[n].call = i})

\* call i went to the network and succeeded
SucceededByNetwork(i) ==
    /\ calls[i].pc = "done"
    /\ calls[i].result.state = "fulfilled"
    /\ FetchesOf(i) = 1

\* calls i and j are searchPokemon calls whose queries normalise to the same
\* URL, j finished; i fetched, succeeded and cached its payload; the entry i
\* wrote was in the cache when j
\* started, less than 5 minutes after i wrote it
SecondSearchInSequence(i, j) ==
    /\ calls[j].pc = "done"
    /\ calls[j].seen # <<>>
    /\ calls[j].seen[1].writer = i
    /\ calls[i].op = "searchPokemon"
    /\ calls[j].op = "searchPokemon"
    /\ calls[i].url = calls[j].url
    /\ SucceededByNetwork(i)
    /\ calls[j].startedAt - calls[j].seen[1].timestamp < CACHE_DURATION

\* C1: of two searchPokemon calls with the same query, the second started
\* after the first succeeded and less than 5 minutes after the first cached
\* its payload, only the first issues a network call, and the second
\* returns the payload the first returned.
C1_SecondSearchServedFromCache ==
    \A i, j \in DOMAIN calls :
        SecondSearchInSequence(i, j) =>
            /\ FetchesOf(i) + FetchesOf(j) = 1
            /\ calls[j].result = Fulfilled(calls[i].result.value)

\* a second call made CACHE_DURATION - 1 ms after the first cached
C1_Witness ==
    \E i, j \in DOMAIN calls :
        /\ SecondSearchInSequence(i, j)
        /\ calls[j].startedAt - calls[j].seen[1].timestamp = CACHE_DURATION - 1

-----------------------------------------------------------------------------
\* the domain-shape validation that belongs to a cache key: a Pokemon
\* record's for a key under .../pokemon/, a species' for a key under
\* .../pokemon-species/, a list's for a key of .../pokemon?...
PassedShapeValidation(key, data) ==
    CASE Head(key) = Head(PokemonUrl) -> {"id", "name", "sprites"} \subseteq data.fields
      [] Head(key) = Head(SpeciesUrl) -> {"id", "name"} \subseteq data.fields
      [] OTHER -> {"results", "resultsArray"} \subseteq data.fields

\* C3: every cache entry's payload passed domain-shape validation, in every
\* reachable state and whichever operation wrote the entry.
C3_CachedPayloadsValidated ==
    \A key \in DOMAIN cache : PassedShapeValidation(key, cache[key].data)

-----------------------------------------------------------------------------
(* SpecExpiry: two cache keys, one call after the other, over time *)

ExpiryOutcomes == {Fulfils(Ok(PokemonBody(1)))}

NextExpiry ==
    \/ Idle /\ \E q \in {JsStr(Pikachu), JsNum(1)} : CallSearchPokemon(q)
    \/ Idle /\ CallBatchFetch(<<PikachuUrl, PokemonUrl \o <<"1">>>>, TRUE, 2)
    \/ Settles(ExpiryOutcomes)
    \/ BatchSettles(ExpiryOutcomes)
    \/ Waiting /\ \E d \in TickSteps : Tick(d)

SpecExpiry == Init /\ [][NextExpiry]_vars

\* this step is the call of a domain operation that reached its cache lookup
Lookup == Len(calls') = Len(calls) + 1 /\ calls'[Len(calls')].key # <<>>

\* the entry of `key`, if any, is younger than CACHE_DURATION
Fresh(key) == key \in DOMAIN cache /\ now - cache[key].timestamp < CACHE_DURATION
Stale(key) == key \in DOMAIN cache /\ now - cache[key].timestamp >= CACHE_DURATION

\* C2: get(key) returns the stored payload only if now - storedAt <
\* CACHE_DURATION; for an entry that old or older it returns absent and
\* removes that entry, and only it; for a key with no entry it returns
\* absent and changes nothing.  A lookup that returns a payload ends the
\* call with it; one that returns absent sends the call to the network.
C2_GetContract ==
    [][Lookup =>
        LET call == calls'[Len(calls')]
            key == call.key
        IN  /\ Fresh(key) =>
                /\ call.result = Fulfilled(cache[key].data)
                /\ cache' = cache
            /\ call.result.state = "fulfilled" => Fresh(key)
            /\ Stale(key) =>
                /\ call.pc = "fetch"
                /\ cache' = [k \in DOMAIN cache \ {key} |-> cache[k]]
            /\ key \notin DOMAIN cache =>
                /\ call.pc = "fetch"
                /\ cache' = cache]_vars

\* a call found its entry exactly CACHE_DURATION old and evicted it, another
\* key's entry staying
C2_Witness ==
    \E i \in DOMAIN calls :
        /\ calls[i].pc = "fetch"
        /\ calls[i].seen # <<>>
        /\ calls[i].startedAt - calls[i].seen[1].timestamp = CACHE_DURATION
        /\ calls[i].key \notin DOMAIN cache
        /\ cache # EmptyCache

-----------------------------------------------------------------------------
(* SpecLoading: searchPokemon and getPokemonList calls that overlap, and    *)
(* subscribers                                                             *)

\* a success, a classified error, a wrapped transport error and a body
\* that does not decode
LoadingOutcomes ==
    {Fulfils(Ok(PokemonBody(1))), Fulfils(Status(404)), Rejects(LoadFailed),
     Fulfils(Response(200, "OK", JsonType, <<BadJson>>, JNull))}

Callbacks == {"setLoadingStates"}

NextLoading ==
    \/ CallSearchPokemon(JsStr(Pikachu))
    \/ CallGetPokemonList(20, 0)
    \/ Settles(LoadingOutcomes)
    \/ \E cb \in Callbacks : Subscribe(cb)

SpecLoading == Init /\ [][NextLoading]_vars

\* the callback invocations of this step
NewNotifications == SubSeq(notifyLog', Len(notifyLog) + 1, Len(notifyLog'))

\* in this step call i leaves fetchWithErrorHandling
ExecutorExits(i) ==
    /\ i \in DOMAIN calls
    /\ calls[i].pc \in {"fetch", "json"}
    /\ calls'[i].pc = "exec"

\* in this step a call of `op` is made that misses the cache and fetches
UncachedCall(op) ==
    /\ Len(calls') = Len(calls) + 1
    /\ calls'[Len(calls')].op = op
    /\ calls'[Len(calls')].pc = "fetch"

\* every registered subscriber is invoked in this step, once, with a
\* snapshot where the flag of `op` is `flag`
AllNotified(op, flag) ==
    /\ Len(NewNotifications) = Len(subscribers)
    /\ \A k \in DOMAIN subscribers :
          /\ NewNotifications[k].cb = subscribers[k]
          /\ NewNotifications[k].snapshot[op] = flag
          /\ NewNotifications[k].snapshot = loadingStates'


\* C4: on every exit of fetchWithErrorHandling after it announced
\* loading-start (it returns, it throws a classified error, it throws a
\* wrapped error) the flag of its operation is set to false and every
\* subscriber is notified of it.
C4_LoadingEndOnEveryExit ==
    [][\A i \in DOMAIN calls :
          ExecutorExits(i) =>
              /\ loadingStates'[calls[i].op] = FALSE
              /\ AllNotified(calls[i].op, FALSE)]_vars

\* the executor threw a wrapped error and the subscriber was told that the
\* loading ended
C4_Witness ==
    \E i \in DOMAIN calls :
        /\ calls[i].pc = "exec"
        /\ calls[i].exec.state = "rejected"
        /\ Head(calls[i].exec.error.message) = "Unexpected error: "
        /\ notifyLog # <<>>
        /\ notifyLog[Len(notifyLog)].src = i
        /\ ~notifyLog[Len(notifyLog)].snapshot[calls[i].op]

\* C5: a subscriber registered before an uncached searchPokemon call is
\* notified with searchPokemon = true in the step of the call itself, in
\* which the request is issued and still pending, and with searchPokemon =
\* false in the step in which the executor exits, whether it succeeded or
\* failed; of the notifications one call causes, every true one precedes
\* every false one.
C5_SearchLoadingTransitions ==
    /\ [][/\ UncachedCall("searchPokemon") =>
                /\ AllNotified("searchPokemon", TRUE)
                /\ Len(fetchLog') = Len(fetchLog) + 1
          /\ \A i \in DOMAIN calls :
                ExecutorExits(i) /\ calls[i].op = "searchPokemon" =>
                    AllNotified("searchPokemon", FALSE)]_vars
    /\ [](\A m, n \in DOMAIN notifyLog :
            /\ notifyLog[m].src = notifyLog[n].src
            /\ notifyLog[m].isLoading
            /\ ~notifyLog[n].isLoading
            => m < n)

\* the subscriber saw true, then false, for a searchPokemon call that failed
C5_Witness ==
    \E i \in DOMAIN calls : \E m, n \in DOMAIN notifyLog :
        /\ calls[i].op = "searchPokemon"
        /\ calls[i].exec.state = "rejected"
        /\ notifyLog[m].src = i /\ notifyLog[m].snapshot.searchPokemon
        /\ notifyLog[n].src = i /\ ~notifyLog[n].snapshot.searchPokemon
        /\ m < n

\* call i is inside fetchWithErrorHandling
InFlight(i) == calls[i].pc \in {"fetch", "json"}

\* call i is the only call of its operation that ever fetched, and it is
\* still in flight
OnlyOneInFlight(i) ==
    /\ InFlight(i)
    /\ \A k \in DOMAIN calls : k # i /\ calls[k].op = calls[i].op => FetchesOf(k) = 0

AllFalse(snapshot) == \A o \in Operations : ~snapshot[o]

\* C6: when an uncached searchPokemon and an uncached getPokemonList are
\* issued together (one is called while the other, the only one of its
\* kind, is in flight), every subscriber is notified of a snapshot with both
\* flags true in the step of the second call, before either settles; the
\* exit of each clears its own flag and no other; and once no request is in
\* flight every flag is false and so is every flag of the last notification.
C6_ConcurrentIndependence ==
    /\ [][/\ \A op, other \in {"searchPokemon", "getPokemonList"} :
                /\ op # other
                /\ UncachedCall(op)
                /\ \E i \in DOMAIN calls : calls[i].op = other /\ OnlyOneInFlight(i)
                => /\ AllNotified(op, TRUE)
                   /\ AllNotified(other, TRUE)
          /\ \A i \in DOMAIN calls :
                ExecutorExits(i) =>
                    loadingStates' = [loadingStates EXCEPT ![calls[i].op] = FALSE]]_vars
    /\ []((\A i \in DOMAIN calls : ~InFlight(i)) =>
            /\ AllFalse(loadingStates)
            /\ notifyLog # <<>> => AllFalse(notifyLog[Len(notifyLog)].snapshot))

\* both calls were in flight at once, the subscriber saw both flags true, and
\* after both settled the last notification has every flag false
C6_Witness ==
    /\ Len(calls) = 2
    /\ {calls[1].op, calls[2].op} = {"searchPokemon", "getPokemonList"}
    /\ \A i \in DOMAIN calls : calls[i].pc = "done" /\ FetchesOf(i) = 1
    /\ \E n \in DOMAIN notifyLog :
          /\ notifyLog[n].snapshot.searchPokemon
          /\ notifyLog[n].snapshot.getPokemonList
    /\ AllFalse(notifyLog[Len(notifyLog)].snapshot)

-----------------------------------------------------------------------------
(* SpecExec: fetchWithErrorHandling under every kind of answer, reached     *)
(* through searchPokemon and getPokemonSpecies, one call after the other    *)

\* statuses that are not ok: around 404, 429 and 500
ExecStatuses == {304, 400, 404, 429, 499, 500, 503}

\* responses that differ in status text, content type and body; an ok
\* response with and without a JSON content type; rejections of fetch()
ExecOutcomes ==
    {Fulfils(Response(st, text, JsonType, <<>>, PokemonBody(1))) :
        st \in ExecStatuses \cup {200}, text \in {"", "Error"}}
    \cup {Fulfils(Response(500, "Error", TextType, <<>>, JNull)),
          Fulfils(Response(429, "Error", <<>>, <<BadJson>>, JNull)),
          Fulfils(Response(200, "OK", TextType, <<>>, PokemonBody(1)))}
    \cup {Rejects(FailedToFetch), Rejects(FetchFailed), Rejects(LoadFailed)}

NextExec ==
    \/ Idle /\ CallSearchPokemon(JsStr(PikachuUpper))
    \/ Idle /\ CallGetPokemonSpecies(JsNum(25))
    \/ Settles(ExecOutcomes)

SpecExec == Init /\ [][NextExec]_vars

\* the error the specification assigns to a status that is not 2xx
ErrorByStatus(status, statusText, url) ==
    IF status = 404
    THEN PokemonAPIError(<<"Resource not found!">>, <<404>>, <<url>>)
    ELSE IF status >= 500
    THEN PokemonAPIError(<<"Server error: ", statusText>>, <<status>>, <<url>>)
    ELSE IF status = 429
    THEN PokemonAPIError(<<"Too many requests. Please try again later.">>,
                         <<429>>, <<url>>)
    ELSE PokemonAPIError(<<"HTTP Error: ">> \o NumToString(status)
                             \o <<" ", statusText>>, <<status>>, <<url>>)

\* C9: when fetch answers with a status outside 200..299, the executor
\* throws the PokemonAPIError that the status (with the status text and the
\* url) determines, whatever the content type and the body are.
C9_NonOkClassifiedByStatus ==
    [][\A id \in DOMAIN calls : \A outcome \in ExecOutcomes :
          /\ ~outcome.rejects
          /\ outcome.response.status \notin 200..299
          /\ FetchSettles(id, outcome)
          => calls'[id].exec =
                 Rejected(ErrorByStatus(outcome.response.status,
                                        outcome.response.statusText,
                                        calls[id].url))]_vars

\* a 429 without a content type and a 503 were both classified
C9_Witness ==
    \E i, j \in DOMAIN calls :
        /\ calls[i].pc \in {"exec", "done"}
        /\ calls[i].response.status = 429
        /\ calls[i].response.contentType = <<>>
        /\ calls[i].exec.state = "rejected"
        /\ calls[i].exec.error.status = <<429>>
        /\ calls[j].pc \in {"exec", "done"}
        /\ calls[j].response.status = 503
        /\ calls[j].exec.state = "rejected"
        /\ Head(calls[j].exec.error.message) = "Server error: "

\* C10: when fetch itself rejects, the executor throws a NetworkError with
\* the fixed message and the url, never a PokemonAPIError.
C10_TransportFailureIsNetworkError ==
    [][\A id \in DOMAIN calls : \A outcome \in ExecOutcomes :
          outcome.rejects /\ FetchSettles(id, outcome)
          => calls'[id].exec =
                 Rejected(NetworkError(
                     <<"Network error: Please check your internet connection">>,
                     <<calls[id].url>>))]_vars

-----------------------------------------------------------------------------
(* SpecValidate: the operations called with well-formed and malformed      *)
(* arguments, one call after the other, with a subscriber and a cache that *)
(* earlier calls filled                                                    *)

\* a letter, a blank and a character the pattern rejects
Alphabet == {"a", " ", "!"}

RECURSIVE StringsUpTo(_)
StringsUpTo(n) ==
    IF n = 0 THEN {<<>>}
    ELSE LET shorter == StringsUpTo(n - 1)
         IN  shorter \cup {Append(s, c) : s \in shorter, c \in Alphabet}

\* the arguments handed to searchPokemon and getPokemonSpecies
QueryInputs ==
    {JsNull, JsUndefined, JsNum(0), JsNum(25), JsStr(<<"M", "r", "-", "1">>)}
        \cup {JsStr(s) : s \in StringsUpTo(MaxLen)}

\* the arguments handed to getPokemonList
ListInputs == {<<0, 0>>, <<1001, 0>>, <<20, 0 - 1>>, <<20, 0>>}

\* a body with the properties every operation looks for
ValidateOutcomes ==
    {Fulfils(Ok(JObject({"id", "name", "sprites", "results", "resultsArray"},
                        <<GoodEntry>>, 1)))}

\* one behaviour hands one argument to searchPokemon and getPokemonSpecies,
\* as getPokemonWithSpecies(query) does
SameArgument(query) ==
    \A i \in DOMAIN calls :
        calls[i].op \in {"searchPokemon", "getPokemonSpecies"} => calls[i].query = query

NextValidate ==
    \/ Idle /\ \E q \in QueryInputs : SameArgument(q) /\ CallSearchPokemon(q)
    \/ Idle /\ \E q \in QueryInputs : SameArgument(q) /\ CallGetPokemonSpecies(q)
    \/ Idle /\ \E a \in ListInputs : CallGetPokemonList(a[1], a[2])
    \/ Idle /\ \E isArray \in BOOLEAN : CallBatchFetch(<<>>, isArray, 5)
    \/ Settles(ValidateOutcomes)
    \/ \E cb \in Callbacks : Subscribe(cb)

SpecValidate == Init /\ [][NextValidate]_vars

\* call i rejected with a PokemonAPIError whose message starts with `text`
RejectedWith(i, text) ==
    /\ calls[i].result.state = "rejected"
    /\ calls[i].result.error.name = "PokemonAPIError"
    /\ Head(calls[i].result.error.message) = text

\* C7: searchPokemon rejects with "Query parameter is required" for null and
\* undefined, with "Query parameter cannot be empty" for the empty string
\* and for blanks only, and with the alphanumeric message when the trimmed
\* query has another character; getPokemonSpecies does the same with the
\* "ID" wording.
C7_ValidationMessages ==
    \A i \in DOMAIN calls :
        calls[i].op \in {"searchPokemon", "getPokemonSpecies"} =>
            LET q == calls[i].query
                search == calls[i].op = "searchPokemon"
            IN  /\ q.t \in {"null", "undefined"} =>
                      RejectedWith(i, IF search THEN "Query parameter is required"
                                      ELSE "ID parameter is required")
                /\ q.t = "string" /\ trim(q.s) = <<>> =>
                      RejectedWith(i, IF search THEN "Query parameter cannot be empty"
                                      ELSE "ID parameter cannot be empty")
                /\ q.t = "string" /\ trim(q.s) # <<>>
                        /\ (\E k \in DOMAIN trim(q.s) :
                               trim(q.s)[k] \notin Range(LowerCase) \cup Range(UpperCase)
                                   \cup Range(DigitChars) \cup {"-"}) =>
                      RejectedWith(i, IF search
                          THEN "Query must contain only alphanumeric characters and hyphens"
                          ELSE "ID must contain only alphanumeric characters and hyphens")

\* the arguments of call c are malformed
Malformed(c) ==
    CASE c.op \in {"searchPokemon", "getPokemonSpecies"} ->
            \/ c.query.t \in {"null", "undefined"}
            \/ c.query.t = "string" /\
                  \/ trim(c.query.s) = <<>>
                  \/ \E k \in DOMAIN c.query.s :
                        c.query.s[k] \notin Range(LowerCase) \cup Range(UpperCase)
                            \cup Range(DigitChars) \cup {"-"} \cup WhiteSpace
                  \/ \E k \in DOMAIN trim(c.query.s) : trim(c.query.s)[k] \in WhiteSpace
      [] c.op = "getPokemonList" ->
            c.limit < 1 \/ c.limit > 1000 \/ c.offset < 0
      [] OTHER -> ~c.isArray

\* C8: a call of searchPokemon, getPokemonList, getPokemonSpecies or
\* batchFetchPokemon with malformed arguments rejects, in the step of the
\* call, with a PokemonAPIError whose status is null; that step issues no
\* fetch, changes no loading flag, notifies no subscriber and leaves the
\* cache as it was.
C8_ValidationBeforeNetwork ==
    [][Len(calls') = Len(calls) + 1 /\ Malformed(calls'[Len(calls')]) =>
          LET c == calls'[Len(calls')]
          IN  /\ c.pc = "done"
              /\ c.result.state = "rejected"
              /\ c.result.error.name = "PokemonAPIError"
              /\ c.result.error.status = <<>>
              /\ UNCHANGED <<fetchLog, loadingStates, notifyLog, cache>>]_vars

\* with a subscriber registered and an entry in the cache, getPokemonList
\* was called with a negative offset and rejected
C8_Witness ==
    /\ subscribers # <<>>
    /\ DOMAIN cache # {}
    /\ Len(fetchLog) = 1
    /\ \E i \in DOMAIN calls :
          /\ calls[i].op = "getPokemonList"
          /\ calls[i].offset < 0
          /\ calls[i].result.state = "rejected"
          /\ calls[i].result.error.status = <<>>

-----------------------------------------------------------------------------
\* C11: after a 404 answer searchPokemon(query) rejects with the
\* PokemonAPIError 'Pokemon "<query>" not found' built from the query as it
\* was given, with status 404 and the url fetched; getPokemonSpecies(id)
\* with 'Pokemon species with ID "<id>" not found' and status 404; an error
\* of the executor whose status is not 404 is the error the call rejects
\* with.
C11_NotFoundRemapped ==
    \A i \in DOMAIN calls :
        /\ calls[i].op \in {"searchPokemon", "getPokemonSpecies"}
        /\ calls[i].pc = "done"
        /\ calls[i].exec.state = "rejected"
        => /\ calls[i].response.status = 404 =>
                calls[i].result = Rejected(PokemonAPIError(
                    (IF calls[i].op = "searchPokemon" THEN <<"Pokemon \"">>
                     ELSE <<"Pokemon species with ID \"">>)
                        \o String(calls[i].query) \o <<"\" not found">>,
                    <<404>>, <<calls[i].url>>))
           /\ calls[i].exec.error.status # <<404>> =>
                calls[i].result = Rejected(calls[i].exec.error)

\* searchPokemon("PIKACHU") was answered 404 and getPokemonSpecies(25) was
\* answered 500
C11_Witness ==
    \E i, j \in DOMAIN calls :
        /\ calls[i].op = "searchPokemon" /\ calls[i].pc = "done"
        /\ calls[i].response.status = 404
        /\ calls[i].query = JsStr(PikachuUpper)
        /\ calls[i].url = PokemonUrl \o Pikachu
        /\ calls[i].result.state = "rejected"
        /\ calls[j].op = "getPokemonSpecies" /\ calls[j].pc = "done"
        /\ calls[j].response.status = 500
        /\ calls[j].result.state = "rejected"

-----------------------------------------------------------------------------
(* SpecCombined: getPokemonWithSpecies, one call after the other *)

\* a well-formed query and one the pattern rejects
CombinedQueries == {JsStr(Pikachu), JsStr(<<"p", "!">>)}

\* a body with the properties both operations look for, a 404, a failure
\* of the transport
CombinedOutcomes ==
    {Fulfils(Ok(PokemonBody(1))), Fulfils(Status(404)), Rejects(FailedToFetch)}

NextCombined ==
    \/ Idle /\ \E q \in CombinedQueries : CallGetPokemonWithSpecies(q)
    \/ Settles(CombinedOutcomes)

SpecCombined == Init /\ [][NextCombined]_vars

\* the calls getPokemonWithSpecies call p started
PartsOf(cs, p) == {cs[p].parts[k] : k \in DOMAIN cs[p].parts}

\* C12: getPokemonWithSpecies(query) starts searchPokemon(query) and
\* getPokemonSpecies(query) in the step of its call, the second before the
\* first has settled its fetch; it is fulfilled, with {pokemon, species},
\* exactly when both are; it is rejected in the step in which the first of
\* them is, with that one's error, and what the other does afterwards
\* changes nothing of it.
C12_CombinedFirstRejectionWins ==
    /\ [](\A p \in DOMAIN calls : calls[p].op = "getPokemonWithSpecies" =>
            /\ Len(calls[p].parts) = 2
            /\ calls[calls[p].parts[1]].op = "searchPokemon"
            /\ calls[calls[p].parts[2]].op = "getPokemonSpecies"
            /\ \A i \in PartsOf(calls, p) :
                  calls[i].query = calls[p].query /\ calls[i].startedAt = calls[p].startedAt
            /\ calls[p].result.state = "fulfilled" <=>
                  \A i \in PartsOf(calls, p) : calls[i].result.state = "fulfilled"
            /\ calls[p].result.state = "fulfilled" =>
                  calls[p].result.value =
                      Combined(calls[calls[p].parts[1]].result.value,
                               calls[calls[p].parts[2]].result.value)
            /\ calls[p].result.state = "rejected" =>
                  \E i \in PartsOf(calls, p) : calls[p].result = calls[i].result)
    /\ [][\A p \in DOMAIN calls :
            /\ calls[p].op = "getPokemonWithSpecies" =>
                  /\ calls[p].result.state # "pending" =>
                        calls'[p].result = calls[p].result
                  /\ \A i \in PartsOf(calls, p) :
                        /\ calls[p].result.state = "pending"
                        /\ calls[i].result.state = "pending"
                        /\ calls'[i].result.state = "rejected"
                        => calls'[p].result = calls'[i].result]_vars

\* both operations were in flight at once; getPokemonSpecies rejected
\* first, with a NetworkError, and the combined call carries that error
\* although searchPokemon rejected later with another one
C12_Witness ==
    \E p \in DOMAIN calls :
        /\ calls[p].op = "getPokemonWithSpecies"
        /\ calls[p].result.state = "rejected"
        /\ calls[p].result.error.name = "NetworkError"
        /\ calls[p].result = calls[calls[p].parts[2]].result
        /\ calls[calls[p].parts[1]].result.state = "rejected"
        /\ calls[calls[p].parts[1]].result.error.status = <<404>>
        /\ Cardinality({n \in DOMAIN fetchLog :
                            fetchLog[n].call \in PartsOf(calls, p)}) = 2

-----------------------------------------------------------------------------
(* SpecBatch: batchFetchPokemon over three URLs in windows of two, one     *)
(* call after the other, with a subscriber                                 *)

SecondUrl == PokemonUrl \o <<"2", "/">>

BatchUrls == <<FirstUrl, SecondUrl, PikachuUrl>>

\* a success, a 404, a failure of the transport
BatchOutcomes ==
    {Fulfils(Ok(PokemonBody(1))), Fulfils(Status(404)), Rejects(FailedToFetch)}

NextBatch ==
    \/ Idle /\ CallBatchFetch(BatchUrls, TRUE, 2)
    \/ BatchSettles(BatchOutcomes)
    \/ \E cb \in Callbacks : Subscribe(cb)

SpecBatch == Init /\ [][NextBatch]_vars

\* the window item k of call i belongs to
WindowOf(i, k) == (k - 1) \div calls[i].batchSize

\* the items of call i whose fetch was issued and whose callback has not
\* returned
ItemsInFlight(i) ==
    {k \in DOMAIN calls[i].items : calls[i].items[k].pc \in {"fetch", "json"}}

\* C13: in a batchFetchPokemon call an item of a window is started only
\* when every item of the windows before it has settled; the items of one
\* window are started together; so at most batchSize fetches of the call
\* are in flight.
C13_WindowsSequential ==
    \A i \in DOMAIN calls : calls[i].op = "batchFetchPokemon" =>
        /\ \A k, j \in DOMAIN calls[i].items :
              calls[i].items[k].pc # "wait" =>
                  /\ WindowOf(i, j) < WindowOf(i, k) => calls[i].items[j].pc = "done"
                  /\ WindowOf(i, j) = WindowOf(i, k) => calls[i].items[j].pc # "wait"
        /\ Cardinality(ItemsInFlight(i)) <= calls[i].batchSize
        /\ FetchesOf(i) <= Cardinality({k \in DOMAIN calls[i].items :
                                            calls[i].items[k].pc # "wait"})

\* the two fetches of the first window were in flight together, and the
\* fetch of the second window is in flight now
C13_Witness ==
    \E i \in DOMAIN calls :
        /\ calls[i].op = "batchFetchPokemon"
        /\ calls[i].pc = "batch"
        /\ FetchesOf(i) = 3
        /\ ItemsInFlight(i) = {3}
        /\ calls[i].items[1].pc = "done" /\ calls[i].items[2].pc = "done"


\* SpecBatchBodies: the same calls under the bodies a 200 answer may carry:
\* a Pokemon, the JSON text null, a text that is not JSON; and under a 404
BodyOutcomes ==
    {Fulfils(Ok(PokemonBody(1))), Fulfils(Ok(JNull)),
     Fulfils(Response(200, "OK", JsonType, <<BadJson>>, JNull)),
     Fulfils(Status(404))}

NextBatchBodies ==
    \/ Idle /\ CallBatchFetch(BatchUrls, TRUE, 2)
    \/ BatchSettles(BodyOutcomes)

SpecBatchBodies == Init /\ [][NextBatchBodies]_vars

\* the items of call i for which an error was logged
FailedItems(i) ==
    {k \in DOMAIN calls[i].items :
        \E n \in DOMAIN errorLog :
            errorLog[n].call = i /\ errorLog[n].url = calls[i].urls[k]}

\* C14: a batchFetchPokemon call on an array is never rejected; once it
\* has settled, an error was logged for every item whose fetch was answered
\* with a status outside 200..299 or threw, and the array it is fulfilled
\* with has one element for each of the other items.
C14_BatchIsolatesFailures ==
    \A i \in DOMAIN calls :
        calls[i].op = "batchFetchPokemon" /\ calls[i].isArray =>
            /\ calls[i].result.state # "rejected"
            /\ calls[i].pc = "done" =>
                  /\ calls[i].result.state = "fulfilled"
                  /\ calls[i].result.value =
                         JArray(Cardinality(DOMAIN calls[i].items \ FailedItems(i)))
                  /\ Len(calls[i].results) =
                         Cardinality(DOMAIN calls[i].items \ FailedItems(i))


\* a step of a batchFetchPokemon call: its call, or a continuation of it
BatchStep ==
    \E i \in DOMAIN calls' :
        /\ calls'[i].op = "batchFetchPokemon"
        /\ i \in DOMAIN calls => calls'[i] # calls[i]

\* C15: no step of a batchFetchPokemon call (the call, the settlement of an
\* item's fetch or body, the end of a window), whether its items are served
\* from the cache, succeed or fail, changes a loading flag or notifies a
\* subscriber.
C15_BatchLeavesLoadingStates ==
    [][BatchStep => loadingStates' = loadingStates /\ notifyLog' = notifyLog]_vars

\* with a subscriber registered, a batchFetchPokemon call has settled with
\* an item served from the cache, an item fetched and an item failed, and
\* no subscriber was ever notified
C15_Witness ==
    /\ subscribers # <<>>
    /\ notifyLog = <<>>
    /\ \E i \in DOMAIN calls :
          /\ calls[i].op = "batchFetchPokemon"
          /\ calls[i].pc = "done"
          /\ FailedItems(i) # {}
          /\ FetchesOf(i) = 2
          /\ Len(calls[i].results) = 2

-----------------------------------------------------------------------------
(* SpecSubscribers: two callbacks subscribing and unsubscribing around     *)
(* searchPokemon calls made one after the other                            *)

TwoCallbacks == {"setLoadingStates", "onLoadingChange"}

\* a body searchPokemon rejects, so that no call is served from the cache
SubscriberOutcomes == {Fulfils(Ok(BadPokemonBody))}

NextSubscribers ==
    \/ Idle /\ CallSearchPokemon(JsStr(Pikachu))
    \/ Settles(SubscriberOutcomes)
    \/ \E cb \in TwoCallbacks : Subscribe(cb)
    \/ \E cb \in TwoCallbacks : Unsubscribe(cb)

SpecSubscribers == Init /\ [][NextSubscribers]_vars


\* C16: subscribing or unsubscribing invokes no callback; a callback is
\* invoked only in a step that updates the loading states, with the new
\* snapshot, and only if it is registered then, so never after it was
\* unsubscribed (until it is subscribed again); unsubscribing removes the
\* callback however many times it was subscribed, leaves the other
\* callbacks registered, and unsubscribing again changes nothing.
C16_SubscribeUnsubscribe ==
    /\ [][/\ subscribers' # subscribers => notifyLog' = notifyLog
          /\ \A n \in DOMAIN NewNotifications :
                /\ NewNotifications[n].cb \in Range(subscribers)
                /\ NewNotifications[n].snapshot = loadingStates'
                /\ \E i \in DOMAIN calls' :
                      NewNotifications[n].src = i /\ (UncachedCall(calls'[i].op)
                                                       \/ ExecutorExits(i))]_vars
    /\ [](\A cb \in TwoCallbacks :
            LET off == AfterUnsubscribe(subscribers, cb)
                twice == AfterSubscribe(AfterSubscribe(subscribers, cb), cb)
            IN  /\ cb \notin Range(off)
                /\ AfterUnsubscribe(off, cb) = off
                /\ cb \notin Range(AfterUnsubscribe(twice, cb))
                /\ \A other \in TwoCallbacks \ {cb} :
                      other \in Range(off) <=> other \in Range(subscribers))

\* a callback was told of the start of a request, was unsubscribed while
\* the request was in flight, and was not told of its end, which the other
\* callback was
C16_Witness ==
    \E i \in DOMAIN calls : \E cb, other \in TwoCallbacks :
        /\ cb # other
        /\ cb \notin Range(subscribers)
        /\ \E n \in DOMAIN notifyLog :
              notifyLog[n].cb = cb /\ notifyLog[n].src = i /\ notifyLog[n].isLoading
        /\ \E n \in DOMAIN notifyLog :
              notifyLog[n].cb = other /\ notifyLog[n].src = i /\ ~notifyLog[n].isLoading
        /\ \A n \in DOMAIN notifyLog :
              notifyLog[n].cb = cb /\ notifyLog[n].src = i => notifyLog[n].isLoading

-----------------------------------------------------------------------------
(* SpecSnapshot: two subscribers, searchPokemon and getPokemonList side by *)
(* side                                                                    *)

NextSnapshot ==
    \/ CallSearchPokemon(JsStr(Pikachu))
    \/ CallGetPokemonList(20, 0)
    \/ Settles(SubscriberOutcomes)
    \/ \E cb \in TwoCallbacks : Subscribe(cb)

SpecSnapshot == Init /\ [][NextSnapshot]_vars

\* in this step updateLoadingState(op, flag) runs: a call of op that
\* fetches is made (flag true), or the executor of a call of op exits
\* (flag false)
Updates(op, flag) ==
    \/ flag /\ UncachedCall(op)
    \/ ~flag /\ \E i \in DOMAIN calls : calls[i].op = op /\ ExecutorExits(i)

\* C17: updateLoadingState(operation, isLoading) sets the flag of the
\* operation and leaves the two others as they were, and invokes every
\* callback registered at that moment exactly once, in the order of
\* registration, each with all three flags as they are after the update.
C17_UpdateOneFlagNotifyAll ==
    [][\A op \in Operations : \A flag \in BOOLEAN :
          Updates(op, flag) =>
              /\ loadingStates'[op] = flag
              /\ \A o \in Operations \ {op} : loadingStates'[o] = loadingStates[o]
              /\ Len(NewNotifications) = Len(subscribers)
              /\ \A cb \in Range(subscribers) :
                    Cardinality({n \in DOMAIN NewNotifications :
                                    NewNotifications[n].cb = cb}) = 1
              /\ \A n \in DOMAIN NewNotifications :
                    /\ DOMAIN NewNotifications[n].snapshot = Operations
                    /\ NewNotifications[n].snapshot = loadingStates']_vars

\* both callbacks were told of the start of getPokemonList with a snapshot
\* in which the flag of searchPokemon, set before, is still true
C17_Witness ==
    \E m, n \in DOMAIN notifyLog :
        /\ n = m + 1
        /\ notifyLog[m].cb # notifyLog[n].cb
        /\ notifyLog[m].src = notifyLog[n].src
        /\ notifyLog[m].operation = "getPokemonList" /\ notifyLog[m].isLoading
        /\ notifyLog[n].operation = "getPokemonList" /\ notifyLog[n].isLoading
        /\ notifyLog[m].snapshot.searchPokemon /\ notifyLog[m].snapshot.getPokemonList
        /\ notifyLog[n].snapshot = notifyLog[m].snapshot

-----------------------------------------------------------------------------
(* SpecCopies: callers of getLoadingStates and a subscriber assigning to   *)
(* the objects they were handed, around searchPokemon calls made one       *)
(* after the other                                                         *)

NextCopies ==
    \/ Idle /\ CallSearchPokemon(JsStr(Pikachu))
    \/ Settles(SubscriberOutcomes)
    \/ \E cb \in Callbacks : Subscribe(cb)
    \/ CallGetLoadingStates
    \/ \E ref \in HeldRefs : MutateObject(ref)

SpecCopies == Init /\ [][NextCopies]_vars

\* what the holders of objects other than `ref` see
SeenByOthers(log, cs, ref) ==
    <<[n \in {m \in DOMAIN log : log[m].ref # ref} |-> log[n].snapshot],
      [i \in {j \in DOMAIN cs : cs[j].held # <<>> /\ cs[j].held[1].ref # ref}
          |-> cs[i].held[1].snapshot]>>

\* C18: an assignment to the object getLoadingStates returned, or to the
\* snapshot a subscriber was handed, changes neither loadingStates nor any
\* other object handed out; getLoadingStates returns the flags as they
\* are, which stay true to the requests in flight.
C18_SnapshotsAreCopies ==
    /\ [][/\ \A ref \in HeldRefs :
                MutateObject(ref) =>
                    /\ loadingStates' = loadingStates
                    /\ SeenByOthers(notifyLog', calls', ref)
                           = SeenByOthers(notifyLog, calls, ref)
          /\ Len(calls') = Len(calls) + 1
                /\ calls'[Len(calls')].op = "getLoadingStates" =>
                    /\ calls'[Len(calls')].held[1].snapshot = loadingStates
                    /\ calls'[Len(calls')].held[1].ref \notin HeldRefs \cup {RegistryRef}
                    /\ loadingStates' = loadingStates]_vars
    /\ [](\A o \in Operations :
            loadingStates[o] <=> \E i \in DOMAIN calls : calls[i].op = o /\ InFlight(i))

\* while a request is in flight a caller holds the snapshot it was
\* returned after the request started, and the subscriber the one it was
\* handed at the start; both have set searchPokemon to false in theirs, and
\* the flag is still true
C18_Witness ==
    \E i, j \in DOMAIN calls : \E n \in DOMAIN notifyLog :
        /\ j < i
        /\ calls[j].op = "searchPokemon" /\ InFlight(j)
        /\ calls[i].op = "getLoadingStates"
        /\ ~calls[i].held[1].snapshot.searchPokemon
        /\ notifyLog[n].src = j /\ notifyLog[n].isLoading
        /\ ~notifyLog[n].snapshot.searchPokemon
        /\ loadingStates.searchPokemon

-----------------------------------------------------------------------------
(* SpecSpellings: searchPokemon called with several spellings of one name, *)
(* one call after the other                                                *)

Spellings ==
    {JsStr(Pikachu), JsStr(PikachuUpper),
     JsStr(<<" ">> \o Pikachu \o <<" ">>),
     JsStr(<<" ", "P", "i", "k", "a", "C", "H", "U">>)}

SpellingOutcomes ==
    {Fulfils(Ok(PokemonBody(1))), Fulfils(Ok(PokemonBody(2))), Fulfils(Status(404)),
     Rejects(FailedToFetch)}

NextSpellings ==
    \/ Idle /\ \E q \in Spellings : CallSearchPokemon(q)
    \/ Settles(SpellingOutcomes)

SpecSpellings == Init /\ [][NextSpellings]_vars

\* the letter c with its case folded, written out for the letters of the
\* name
FoldedLetter(c) ==
    CASE c = "P" -> "p" [] c = "I" -> "i" [] c = "K" -> "k" [] c = "A" -> "a"
      [] c = "C" -> "c" [] c = "H" -> "h" [] c = "U" -> "u" [] OTHER -> c

\* the string s without its blanks and with its letters folded
Folded(s) ==
    LET letters == SelectSeq(s, LAMBDA c : c # " ")
    IN  [k \in DOMAIN letters |-> FoldedLetter(letters[k])]

\* C19: searchPokemon calls whose queries differ only in letter case and
\* in surrounding whitespace fetch the same URL, .../pokemon/pikachu for the
\* spellings of pikachu, and use the same cache key; a call made after
\* another spelling was fetched and cached issues no fetch and returns the
\* payload cached.
C19_SpellingsShareEntry ==
    \A i, j \in DOMAIN calls :
        /\ calls[i].op = "searchPokemon" /\ calls[j].op = "searchPokemon"
        /\ Folded(calls[i].query.s) = Folded(calls[j].query.s)
        => /\ calls[i].url = <<"https://pokeapi.co/api/v2/pokemon/">> \o Folded(calls[i].query.s)
           /\ calls[i].url = calls[j].url
           /\ calls[i].key = calls[j].key
           /\ i < j /\ SucceededByNetwork(i) =>
                 /\ FetchesOf(j) = 0
                 /\ calls[j].result.state = "fulfilled"
                 /\ \E k \in i..(j - 1) : calls[j].result = calls[k].result
           /\ DOMAIN cache \subseteq {calls[i].key}

\* "PIKACHU" was fetched and cached, and " pikachu " was served from that
\* entry
C19_Witness ==
    \E i, j \in DOMAIN calls :
        /\ i < j
        /\ calls[i].query = JsStr(PikachuUpper)
        /\ SucceededByNetwork(i)
        /\ calls[j].query = JsStr(<<" ">> \o Pikachu \o <<" ">>)
        /\ calls[j].pc = "done"
        /\ FetchesOf(j) = 0
        /\ calls[j].result = calls[i].result
        /\ cache[calls[j].key].writer = i

-----------------------------------------------------------------------------
(* SpecStats: getCacheStats between searchPokemon calls made one after the *)
(* other, over time                                                        *)

NextStats ==
    \/ Idle /\ \E q \in {JsStr(Pikachu), JsNum(1)} : CallSearchPokemon(q)
    \/ Settles(ExpiryOutcomes)
    \/ Waiting /\ \E d \in TickSteps : Tick(d)
    \/ Waiting /\ CallGetCacheStats

SpecStats == Init /\ [][NextStats]_vars

\* this step is a call of getCacheStats
StatsCall ==
    Len(calls') = Len(calls) + 1 /\ calls'[Len(calls')].op = "getCacheStats"

\* C20: getCacheStats leaves the cache as it is and returns totalEntries =
\* the number of entries = validEntries + expiredEntries, validEntries the
\* number of entries younger than CACHE_DURATION at the call; an entry
\* older than that is counted as expired, and in the total, until a lookup
\* of its key removes it, and then the total is one less.
C20_StatsPartitionNoEviction ==
    [][/\ StatsCall =>
             LET stats == calls'[Len(calls')].stats[1]
             IN  /\ cache' = cache
                 /\ stats.totalEntries = Cardinality(DOMAIN cache)
                 /\ stats.totalEntries = stats.validEntries + stats.expiredEntries
                 /\ stats.validEntries = Cardinality({k \in DOMAIN cache : Fresh(k)})
                 /\ stats.expiredEntries = Cardinality({k \in DOMAIN cache : Stale(k)})
                 /\ stats.cacheDuration = 300000
       /\ \A key \in DOMAIN cache :
             Stale(key) /\ Lookup /\ calls'[Len(calls')].key = key =>
                 /\ getCacheStats(cache, now).expiredEntries >= 1
                 /\ getCacheStats(cache', now').totalEntries
                        = getCacheStats(cache, now).totalEntries - 1]_vars

\* getCacheStats counted an entry aged exactly CACHE_DURATION as expired
\* and left it in the cache; the lookup of its key that followed found it,
\* removed it, and the cache is empty
C20_Witness ==
    \E i, k \in DOMAIN calls :
        /\ i < k
        /\ calls[i].op = "getCacheStats"
        /\ calls[i].stats[1].totalEntries = 1
        /\ calls[i].stats[1].expiredEntries = 1
        /\ calls[k].seen # <<>>
        /\ calls[k].startedAt - calls[k].seen[1].timestamp = CACHE_DURATION
        /\ calls[i].startedAt = calls[k].startedAt
        /\ getCacheStats(cache, now).totalEntries = 0

-----------------------------------------------------------------------------
(* SpecList: getPokemonList with arguments around its bounds, under the    *)
(* bodies the upstream may answer with, one call after the other           *)

\* limits around 1 and 1000, offsets around 0
ListArguments == {0, 1, 1000, 1001} \X {0 - 1, 0}

\* a list; a list with an entry that lacks url; a list with a null entry;
\* an empty list; a body without results; a body whose results is not an
\* array; a 404
ListOutcomes ==
    {Fulfils(Ok(ListBody(<<GoodEntry>>, 1))),
     Fulfils(Ok(ListBody(<<GoodEntry, Entry({"name"})>>, 2))),
     Fulfils(Ok(ListBody(<<GoodEntry, NullEntry>>, 3))),
     Fulfils(Ok(ListBody(<<>>, 4))),
     Fulfils(Ok(PokemonBody(5))),
     Fulfils(Ok(JObject({"results"}, <<>>, 6))),
     Fulfils(Status(404))}

NextList ==
    \/ Idle /\ \E a \in ListArguments : CallGetPokemonList(a[1], a[2])
    \/ Settles(ListOutcomes)

SpecList == Init /\ [][NextList]_vars

\* C21: whenever a call of an exposed operation is rejected, the error is a
\* PokemonAPIError or a NetworkError, whatever the upstream answered.
C21_RejectionsClassified ==
    \A i \in DOMAIN calls :
        calls[i].result.state = "rejected" =>
            calls[i].result.error.name \in {"PokemonAPIError", "NetworkError"}

\* C23: no call of a domain operation is rejected with the message
\* "Resource not found!" of fetchWithErrorHandling.
C23_RawNotFoundHidden ==
    \A i \in DOMAIN calls :
        calls[i].result.state = "rejected" =>
            calls[i].result.error.message # <<"Resource not found!">>

\* C25: a call getPokemonList(limit, offset) rejects with "Limit must be
\* between 1 and 1000" exactly when limit < 1 or limit > 1000, whatever the
\* offset; otherwise with "Offset must be 0 or greater" exactly when
\* offset < 0; otherwise it goes on to the cache lookup under the key of the
\* request, so that limit 1, limit 1000 and offset 0 are accepted.
C25_ListBounds ==
    [][Len(calls') = Len(calls) + 1
          /\ calls'[Len(calls')].op = "getPokemonList" =>
          LET c == calls'[Len(calls')]
              limitMessage ==
                  /\ c.result.state = "rejected"
                  /\ c.result.error.message = <<"Limit must be between 1 and 1000">>
              offsetMessage ==
                  /\ c.result.state = "rejected"
                  /\ c.result.error.message = <<"Offset must be 0 or greater">>
          IN  /\ limitMessage <=> (c.limit < 1 \/ c.limit > 1000)
              /\ offsetMessage <=> (c.limit \in 1..1000 /\ c.offset < 0)
              /\ (c.limit \in 1..1000 /\ c.offset >= 0) =>
                    /\ Lookup
                    /\ c.result.state # "rejected"
                    /\ c.pc = "fetch" \/ c.result.state = "fulfilled"]_vars

\* getPokemonList(0, -1) rejected for its limit, and getPokemonList(1000, 0)
\* went on to the cache
C25_Witness ==
    /\ \E i \in DOMAIN calls :
          /\ calls[i].op = "getPokemonList"
          /\ calls[i].limit = 0 /\ calls[i].offset < 0
          /\ calls[i].result.state = "rejected"
          /\ calls[i].result.error.message = <<"Limit must be between 1 and 1000">>
    /\ \E i \in DOMAIN calls :
          /\ calls[i].op = "getPokemonList"
          /\ calls[i].limit = 1000 /\ calls[i].offset = 0
          /\ calls[i].key # <<>>

\* the body has a results array whose elements all carry name and url
WellFormedList(data) ==
    /\ {"results", "resultsArray"} \subseteq data.fields
    /\ \A k \in DOMAIN data.items : {"name", "url"} \subseteq data.items[k].fields

\* C26: when fetchWithErrorHandling gave getPokemonList a body, the call
\* resolves with the body and has cached it if results is an array whose
\* elements all carry name and url; otherwise it rejects with the
\* PokemonAPIError "Invalid Pokemon list data structure received" (results
\* missing or not an array) or "Some Pokemon entries have invalid data
\* structure" (an element lacks name or url), and has cached nothing.
C26_ListAllOrNothing ==
    \A i \in DOMAIN calls :
        (/\ calls[i].op = "getPokemonList"
         /\ calls[i].pc = "done"
         /\ calls[i].exec.state = "fulfilled") =>
            LET data == calls[i].exec.value
            IN  IF WellFormedList(data)
                THEN /\ calls[i].result = Fulfilled(data)
                     /\ calls[i].key \in DOMAIN cache
                     /\ cache[calls[i].key].data = data
                ELSE /\ calls[i].result.state = "rejected"
                     /\ calls[i].result.error.name = "PokemonAPIError"
                     /\ calls[i].result.error.message =
                           IF {"results", "resultsArray"} \subseteq data.fields
                           THEN <<"Some Pokemon entries have invalid data structure">>
                           ELSE <<"Invalid Pokemon list data structure received">>
                     /\ \A k \in DOMAIN cache : cache[k].writer # i

-----------------------------------------------------------------------------
(* SpecDecode: fetchWithErrorHandling under answers with a 2xx status,     *)
(* reached through searchPokemon and getPokemonSpecies, one call after the *)
(* other                                                                   *)

\* 200 and 201 answers: without a content type or with text/plain (with a
\* body, with an undecodable body, with null); as JSON, with and without a
\* charset, with an undecodable body, null, "", a non-empty string, an
\* array, a Pokemon, and an object that is not a Pokemon
DecodeOutcomes ==
    {Fulfils(Response(200, "OK", <<>>, <<>>, PokemonBody(1))),
     Fulfils(Response(200, "OK", TextType, <<BadJson>>, JNull)),
     Fulfils(Response(201, "Created", TextType, <<>>, JNull)),
     Fulfils(Response(200, "OK", JsonType, <<BadJson>>, JNull)),
     Fulfils(Response(201, "Created", JsonTypeUtf8, <<BadJson>>, PokemonBody(1))),
     Fulfils(Response(200, "OK", JsonType, <<>>, JNull)),
     Fulfils(Response(200, "OK", JsonType, <<>>, JString(0))),
     Fulfils(Response(201, "Created", JsonTypeUtf8, <<>>, JString(3))),
     Fulfils(Response(200, "OK", JsonType, <<>>, JArray(1))),
     Fulfils(Response(200, "OK", JsonTypeUtf8, <<>>, PokemonBody(1))),
     Fulfils(Response(201, "Created", JsonType, <<>>, PokemonBody(2))),
     Fulfils(Ok(BadPokemonBody))}

NextDecode ==
    \/ Idle /\ CallSearchPokemon(JsStr(Pikachu))
    \/ Idle /\ CallGetPokemonSpecies(JsNum(25))
    \/ Settles(DecodeOutcomes)

SpecDecode == Init /\ [][NextDecode]_vars

\* what the specification assigns to a 2xx response: the first of the
\* three checks that fails decides
DecodeExpectation(response, url) ==
    IF response.contentType = <<>>
          \/ \A k \in DOMAIN response.contentType :
                response.contentType[k] # "application/json"
    THEN Rejected(PokemonAPIError(<<"Invalid response format. Expected JSON">>,
                                  <<response.status>>, <<url>>))
    ELSE IF response.bodyError # <<>>
    THEN Rejected(PokemonAPIError(<<"Invalid JSON response">>, <<>>, <<url>>))
    ELSE IF response.body.t = "null" \/ response.body.t \notin {"object", "array"}
    THEN Rejected(PokemonAPIError(<<"Invalid response data">>,
                                  <<response.status>>, <<url>>))
    ELSE Fulfilled(response.body)

\* C22: for a response with a status in 200..299 fetchWithErrorHandling
\* ends as the first failing check of three decides: a content type without
\* application/json gives PokemonAPIError("Invalid response format.
\* Expected JSON", status, url); a body that cannot be decoded gives
\* PokemonAPIError("Invalid JSON response", null, url), not a NetworkError;
\* a decoded null or non-object gives PokemonAPIError("Invalid response
\* data", status, url); otherwise the decoded body is returned as it is,
\* whatever its shape.
C22_TwoHundredChecksInOrder ==
    \A i \in DOMAIN calls :
        (/\ calls[i].pc \in {"exec", "done"}
         /\ calls[i].response.status \in 200..299) =>
            calls[i].exec = DecodeExpectation(calls[i].response, calls[i].url)

\* a text/plain answer whose body cannot be decoded either was rejected for
\* its format, and a JSON answer with a charset and an undecodable body for
\* its body
C22_Witness ==
    \E i, j \in DOMAIN calls :
        /\ calls[i].pc = "done"
        /\ calls[i].response.contentType = TextType
        /\ calls[i].response.bodyError # <<>>
        /\ calls[i].exec.state = "rejected"
        /\ calls[i].exec.error.message = <<"Invalid response format. Expected JSON">>
        /\ calls[j].pc = "done"
        /\ calls[j].response.contentType = JsonTypeUtf8
        /\ calls[j].response.bodyError # <<>>
        /\ calls[j].response.status = 201
        /\ calls[j].exec.state = "rejected"
        /\ calls[j].exec.error.message = <<"Invalid JSON response">>
        /\ calls[j].exec.error.status = <<>>

-----------------------------------------------------------------------------
\* the orders in which the pairs of `params` can be listed
Orderings(params) ==
    {p \in [DOMAIN params -> Range(params)] : Range(p) = Range(params)}

\* the parameters getPokemonList hands to getCacheKey
ListParams(call) ==
    <<<<"limit", NumToString(call.limit)>>, <<"offset", NumToString(call.offset)>>>>

-----------------------------------------------------------------------------
(* SpecBatchOrder: batchFetchPokemon over three URLs in windows of two or  *)
(* of three, under answers that tell the items apart, one call after the   *)
(* other                                                                   *)

BatchSizes == {2, 3}

\* two Pokemon and a 404
OrderOutcomes ==
    {Fulfils(Ok(PokemonBody(1))), Fulfils(Ok(PokemonBody(2))), Fulfils(Status(404))}

NextBatchOrder ==
    \/ Idle /\ \E batchSize \in BatchSizes : CallBatchFetch(BatchUrls, TRUE, batchSize)
    \/ BatchSettles(OrderOutcomes)

SpecBatchOrder == Init /\ [][NextBatchOrder]_vars

\* the items of call i that gave a value
Alive(i) == {k \in DOMAIN calls[i].items : calls[i].items[k].value.t # "null"}

\* the n-th of them in the order of urls
NthAlive(i, n) ==
    CHOOSE k \in Alive(i) : Cardinality({j \in Alive(i) : j <= k}) = n

\* C27: the array a batchFetchPokemon call resolves to holds the values of
\* the items that survived in the order of their URLs in the input,
\* whatever the order in which the fetches settled and whatever the size of
\* the windows.
C27_BatchKeepsInputOrder ==
    \A i \in DOMAIN calls :
        (calls[i].op = "batchFetchPokemon" /\ calls[i].pc = "done"
            /\ calls[i].result.state = "fulfilled") =>
            /\ Len(calls[i].results) = Cardinality(Alive(i))
            /\ \A n \in DOMAIN calls[i].results :
                  calls[i].results[n] = calls[i].items[NthAlive(i, n)].value

\* in windows of two, the three URLs were fetched, the second was answered
\* with another Pokemon than the first and the third, and the call resolved
\* to the Pokemon of the first, of the second and of the third URL
C27_Witness ==
    \E i \in DOMAIN calls :
        /\ calls[i].op = "batchFetchPokemon"
        /\ calls[i].batchSize = 2
        /\ calls[i].pc = "done"
        /\ FetchesOf(i) = 3
        /\ calls[i].results = <<PokemonBody(2), PokemonBody(1), PokemonBody(2)>>

-----------------------------------------------------------------------------
\* C28: a call of batchFetchPokemon whose urls is not an array rejects with
\* the PokemonAPIError "URLs parameter must be an array"; a call with an
\* empty array resolves to an empty array in the step of the call, which
\* issues no fetch and leaves the cache as it was.
C28_BatchArgument ==
    [][Len(calls') = Len(calls) + 1
          /\ calls'[Len(calls')].op = "batchFetchPokemon" =>
          LET c == calls'[Len(calls')]
          IN  /\ ~c.isArray =>
                    /\ c.pc = "done"
                    /\ c.result.state = "rejected"
                    /\ c.result.error.name = "PokemonAPIError"
                    /\ c.result.error.message = <<"URLs parameter must be an array">>
              /\ c.isArray /\ Len(c.urls) = 0 =>
                    /\ c.pc = "done"
                    /\ c.result = Fulfilled(JArray(0))
                    /\ c.results = <<>>
                    /\ UNCHANGED <<fetchLog, cache>>]_vars

\* one call with an empty array resolved without a fetch, and one call with
\* something that is not an array rejected
C28_Witness ==
    /\ \E i \in DOMAIN calls :
          /\ calls[i].op = "batchFetchPokemon"
          /\ calls[i].isArray /\ calls[i].urls = <<>>
          /\ calls[i].result.state = "fulfilled"
          /\ FetchesOf(i) = 0
    /\ \E i \in DOMAIN calls :
          /\ calls[i].op = "batchFetchPokemon"
          /\ ~calls[i].isArray
          /\ calls[i].result.state = "rejected"

-----------------------------------------------------------------------------
(* SpecBatchCache: batchFetchPokemon over two URLs, one call after the     *)
(* other, while time passes                                                *)

CachedUrls == <<FirstUrl, PikachuUrl>>

\* a Pokemon, the JSON text null, a 404
BatchCacheOutcomes ==
    {Fulfils(Ok(PokemonBody(1))), Fulfils(Ok(JNull)), Fulfils(Status(404))}

NextBatchCache ==
    \/ Idle /\ CallBatchFetch(CachedUrls, TRUE, 2)
    \/ BatchSettles(BatchCacheOutcomes)
    \/ Waiting /\ \E d \in TickSteps : Tick(d)

SpecBatchCache == Init /\ [][NextBatchCache]_vars

\* in this step call j starts the callback of its item k
ItemStarts(j, k) ==
    /\ j \in DOMAIN calls'
    /\ calls'[j].op = "batchFetchPokemon"
    /\ k \in DOMAIN calls'[j].items
    /\ calls'[j].items[k].pc # "wait"
    /\ j \in DOMAIN calls => calls[j].items[k].pc = "wait"

\* the cache holds a body for url that a batchFetchPokemon call stored less
\* than CACHE_DURATION ago
CachedByBatch(url) ==
    /\ getCacheKey(url) \in DOMAIN cache
    /\ calls[cache[getCacheKey(url)].writer].op = "batchFetchPokemon"
    /\ now - cache[getCacheKey(url)].timestamp < CACHE_DURATION

\* this step issues a fetch of url
FetchIssued(url) ==
    \E n \in (Len(fetchLog) + 1)..Len(fetchLog') : fetchLog'[n].url = url

\* C29: when a batchFetchPokemon call starts an item whose URL has a body in
\* the cache, stored by an earlier batchFetchPokemon less than 5 minutes
\* ago, the item gives that body and no fetch of the URL is issued; and when
\* the body of an item is decoded, it is stored in the cache under the key
\* of the item's URL.
C29_BatchUsesCachePerUrl ==
    [][\A j \in DOMAIN calls' : \A k \in DOMAIN calls'[j].items :
          /\ (ItemStarts(j, k) /\ CachedByBatch(calls'[j].urls[k])) =>
                /\ calls'[j].items[k].pc = "done"
                /\ calls'[j].items[k].value =
                       cache[getCacheKey(calls'[j].urls[k])].data
                /\ ~FetchIssued(calls'[j].urls[k])
          /\ (/\ j \in DOMAIN calls
              /\ calls[j].items[k].pc = "json"
              /\ calls'[j].items[k].pc = "done"
              /\ calls[j].items[k].response.bodyError = <<>>) =>
                /\ getCacheKey(calls[j].urls[k]) \in DOMAIN cache'
                /\ cache'[getCacheKey(calls[j].urls[k])].data =
                       calls[j].items[k].response.body
                /\ cache'[getCacheKey(calls[j].urls[k])].timestamp = now]_vars

-----------------------------------------------------------------------------
(* SpecRetries: the five operations, one call after the other, under       *)
(* answers that succeed and answers that fail                              *)

RetryUrls == <<FirstUrl, SecondUrl>>

\* a body, a 429, a failure of the transport
RetryOutcomes ==
    {Fulfils(Ok(PokemonBody(1))), Fulfils(Status(429)), Rejects(FailedToFetch)}

NextRetries ==
    \/ Idle /\ CallSearchPokemon(JsStr(Pikachu))
    \/ Idle /\ CallGetPokemonList(20, 0)
    \/ Idle /\ CallGetPokemonSpecies(JsNum(25))
    \/ Idle /\ CallGetPokemonWithSpecies(JsStr(Pikachu))
    \/ Idle /\ CallBatchFetch(RetryUrls, TRUE, 2)
    \/ Settles(RetryOutcomes)
    \/ BatchSettles(RetryOutcomes)

SpecRetries == Init /\ [][NextRetries]_vars

\* the fetches of url call i issued
FetchesOfUrl(i, url) ==
    Cardinality({n \in DOMAIN fetchLog :
                    fetchLog[n].call = i /\ fetchLog[n].url = url})

\* the fetches issued by the two calls getPokemonWithSpecies call p started
FetchesOfParts(p) ==
    Cardinality({n \in DOMAIN fetchLog : fetchLog[n].call \in PartsOf(calls, p)})

\* C30: no request is repeated: at any time a call of searchPokemon,
\* getPokemonList or getPokemonSpecies has issued at most one fetch, a call
\* of getPokemonWithSpecies at most two (through its two calls), and a call
\* of batchFetchPokemon at most one for each element of urls, whatever the
\* answers were.
C30_NoRetries ==
    \A i \in DOMAIN calls :
        /\ calls[i].op \in {"searchPokemon", "getPokemonList", "getPokemonSpecies"} =>
              FetchesOf(i) <= 1
        /\ calls[i].op = "getPokemonWithSpecies" =>
              /\ FetchesOf(i) = 0
              /\ FetchesOfParts(i) <= 2
        /\ calls[i].op = "batchFetchPokemon" =>
              /\ FetchesOf(i) <= Len(calls[i].urls)
              /\ \A k \in DOMAIN calls[i].urls :
                    FetchesOfUrl(i, calls[i].urls[k]) <= 1

\* a getPokemonWithSpecies call rejected after a 429, having issued its two
\* fetches, and a batchFetchPokemon call finished with every item failed,
\* having issued one fetch for each URL
C30_Witness ==
    \E i, j \in DOMAIN calls :
        /\ calls[i].op = "getPokemonWithSpecies"
        /\ calls[i].pc = "done"
        /\ calls[i].result.state = "rejected"
        /\ calls[i].result.error.status = <<429>>
        /\ FetchesOfParts(i) = 2
        /\ calls[j].op = "batchFetchPokemon"
        /\ calls[j].pc = "done"
        /\ calls[j].results = <<>>
        /\ FetchesOf(j) = Len(calls[j].urls)
        /\ Len(errorLog) = 2

-----------------------------------------------------------------------------
(* SpecClear: two cache keys, one call after the other, over time, and     *)
(* clearCache()                                                            *)

NextClear ==
    \/ Idle /\ \E q \in {JsStr(Pikachu), JsNum(1)} : CallSearchPokemon(q)
    \/ Settles(ExpiryOutcomes)
    \/ Waiting /\ \E d \in TickSteps : Tick(d)
    \/ Waiting /\ ClearCache

SpecClear == Init /\ [][NextClear]_vars

\* C31: a step of clearCache() leaves the cache without entries, so that
\* getCacheStats() reports totalEntries = 0; and a searchPokemon call made
\* while the cache has no entries issues a fetch of its URL, also when the
\* payload of that URL was cached before.
C31_ClearCacheEmpties ==
    [][/\ ClearCache =>
             /\ DOMAIN cache' = {}
             /\ getCacheStats(cache', now').totalEntries = 0
       /\ (Lookup /\ DOMAIN cache = {}) =>
             /\ calls'[Len(calls')].pc = "fetch"
             /\ FetchIssued(calls'[Len(calls')].url)]_vars

\* a searchPokemon call cached its payload, the cache was cleared, and a
\* second call with the same query, started less than 5 minutes after the
\* first, found no entry and has issued a fetch
C31_Witness ==
    \E i, j \in DOMAIN calls :
        /\ i < j
        /\ calls[i].op = "searchPokemon" /\ calls[j].op = "searchPokemon"
        /\ calls[i].url = calls[j].url
        /\ SucceededByNetwork(i)
        /\ calls[j].startedAt - calls[i].startedAt < CACHE_DURATION
        /\ calls[j].seen = <<>>
        /\ calls[j].pc = "fetch"
        /\ FetchesOf(j) = 1
        /\ DOMAIN cache = {}

-----------------------------------------------------------------------------
(* SpecSiblings: getPokemonWithSpecies with a subscriber, one call after   *)
(* the other                                                               *)

\* a body with the properties both operations look for, and a 404
SiblingOutcomes == {Fulfils(Ok(PokemonBody(1))), Fulfils(Status(404))}

NextSiblings ==
    \/ Idle /\ CallGetPokemonWithSpecies(JsStr(Pikachu))
    \/ Settles(SiblingOutcomes)
    \/ \E cb \in Callbacks : Subscribe(cb)

SpecSiblings == Init /\ [][NextSiblings]_vars

\* call c was started by a getPokemonWithSpecies call that has rejected, and
\* has not returned yet
Outliving(c) ==
    /\ c \in DOMAIN calls
    /\ calls[c].parent # 0
    /\ calls[calls[c].parent].result.state = "rejected"
    /\ calls[c].pc # "done"

\* C32: when a getPokemonWithSpecies call rejects because one of its two
\* calls rejected, the step changes nothing of the other call; afterwards
\* the other call goes on as any call does: at the exit of its executor
\* the flag of its operation is set to false and every subscriber is
\* notified, and when it resolves its payload is in the cache.
C32_SiblingNotAborted ==
    [][/\ \A p \in DOMAIN calls :
             (calls[p].pc = "all" /\ calls'[p].result.state = "rejected") =>
                 \A c \in PartsOf(calls, p) :
                     calls[c].pc # "exec" => calls'[c] = calls[c]
       /\ \A c \in DOMAIN calls :
             Outliving(c) =>
                 /\ calls'[c].pc = "done" => calls[c].pc = "exec"
                 /\ ExecutorExits(c) =>
                       /\ loadingStates'[calls[c].op] = FALSE
                       /\ AllNotified(calls[c].op, FALSE)
                 /\ (calls'[c].pc = "done" /\ calls'[c].result.state = "fulfilled") =>
                       /\ calls[c].key \in DOMAIN cache'
                       /\ cache'[calls[c].key].data = calls'[c].result.value
                       /\ cache'[calls[c].key].writer = c]_vars

\* the search was answered 404 and the combined call rejected; the species
\* call, answered after the search was, resolved from the network, its
\* payload is in the cache and the subscriber was told that its loading
\* ended
C32_Witness ==
    \E p \in DOMAIN calls :
        /\ calls[p].op = "getPokemonWithSpecies"
        /\ calls[p].result.state = "rejected"
        /\ calls[p].result.error.status = <<404>>
        /\ LET r == calls[p].parts[1]
               c == calls[p].parts[2]
           IN  /\ calls[r].result.state = "rejected"
               /\ SucceededByNetwork(c)
               /\ calls[c].key \in DOMAIN cache
               /\ cache[calls[c].key].writer = c
               /\ \E m, n \in DOMAIN notifyLog :
                     /\ m < n
                     /\ notifyLog[m].src = r /\ ~notifyLog[m].isLoading
                     /\ notifyLog[n].src = c /\ ~notifyLog[n].isLoading

-----------------------------------------------------------------------------
(* SpecSameName: calls of the three operations that overlap, calls of the  *)
(* same operation included, and a subscriber                               *)

\* a body with the properties searchPokemon and getPokemonSpecies look for,
\* and a 404
SameNameOutcomes == {Fulfils(Ok(PokemonBody(1))), Fulfils(Status(404))}

NextSameName ==
    \/ CallSearchPokemon(JsStr(Pikachu))
    \/ CallGetPokemonList(20, 0)
    \/ CallGetPokemonSpecies(JsNum(25))
    \/ Settles(SameNameOutcomes)
    \/ \E cb \in Callbacks : Subscribe(cb)

SpecSameName == Init /\ [][NextSameName]_vars

\* C33: when the executor of one call exits while another call of the same
\* operation is in flight, the flag of the operation is set to false and
\* every subscriber is notified of it, and the other call is still in
\* flight after the step.
C33_FlagIsNotACounter ==
    [][\A i, j \in DOMAIN calls :
          (/\ i # j
           /\ calls[i].op = calls[j].op
           /\ InFlight(j)
           /\ ExecutorExits(i)) =>
              /\ loadingStates'[calls[i].op] = FALSE
              /\ AllNotified(calls[i].op, FALSE)
              /\ calls'[j].pc \in {"fetch", "json"}]_vars

\* of two searchPokemon calls in flight together one was answered 404 and
\* the subscriber was told searchPokemon = false, while the fetch of the
\* other is still pending and the flag is false
C33_Witness ==
    \E i, j \in DOMAIN calls :
        /\ calls[i].op = "searchPokemon" /\ calls[j].op = "searchPokemon"
        /\ calls[i].pc = "exec"
        /\ calls[i].exec.state = "rejected"
        /\ calls[j].pc = "fetch"
        /\ FetchesOf(i) = 1 /\ FetchesOf(j) = 1
        /\ ~loadingStates.searchPokemon
        /\ notifyLog # <<>>
        /\ notifyLog[Len(notifyLog)].src = i
        /\ ~notifyLog[Len(notifyLog)].snapshot.searchPokemon

-----------------------------------------------------------------------------
(* SpecRace: searchPokemon calls for one cache key that overlap, over time *)

\* two Pokemon
RaceOutcomes == {Fulfils(Ok(PokemonBody(1))), Fulfils(Ok(PokemonBody(2)))}

NextRace ==
    \/ CallSearchPokemon(JsStr(Pikachu))
    \/ Settles(RaceOutcomes)
    \/ Waiting /\ \E d \in TickSteps : Tick(d)

SpecRace == Init /\ [][NextRace]_vars

\* C34: a searchPokemon call made while another call for the same key is
\* still running, the key having no fresh entry, misses the cache and
\* issues a fetch of its own; and each call that succeeds writes the key:
\* after its step the one entry of the key holds its payload and the time
\* of the step, whatever entry the key had before, and no other key is
\* touched.
C34_LastWriteWins ==
    [][/\ (/\ Lookup
           /\ calls'[Len(calls')].op = "searchPokemon"
           /\ ~Fresh(calls'[Len(calls')].key)
           /\ \E i \in DOMAIN calls :
                 calls[i].key = calls'[Len(calls')].key /\ calls[i].pc # "done") =>
              /\ calls'[Len(calls')].pc = "fetch"
              /\ FetchIssued(calls'[Len(calls')].url)
       /\ \A i \in DOMAIN calls :
             (/\ calls[i].pc = "exec"
              /\ calls'[i].pc = "done"
              /\ calls'[i].result.state = "fulfilled") =>
                 /\ DOMAIN cache' = DOMAIN cache \cup {calls[i].key}
                 /\ cache'[calls[i].key] =
                        [data |-> calls'[i].result.value, timestamp |-> now,
                         writer |-> i]
                 /\ \A k \in DOMAIN cache : k # calls[i].key => cache'[k] = cache[k]
                 /\ getCacheStats(cache', now).totalEntries =
                        Cardinality(DOMAIN cache \cup {calls[i].key})]_vars

\* two searchPokemon calls were made at the same time, neither finding an
\* entry, and each fetched; the first to settle cached one Pokemon, and the
\* second, settling later with another Pokemon, replaced it: the cache has
\* one entry, with the payload and the time of the second
C34_Witness ==
    \E i, j \in DOMAIN calls :
        /\ i # j
        /\ calls[i].op = "searchPokemon" /\ calls[j].op = "searchPokemon"
        /\ calls[i].key = calls[j].key
        /\ calls[i].startedAt = calls[j].startedAt
        /\ calls[i].seen = <<>> /\ calls[j].seen = <<>>
        /\ SucceededByNetwork(i) /\ SucceededByNetwork(j)
        /\ calls[i].result.value # calls[j].result.value
        /\ DOMAIN cache = {calls[j].key}
        /\ cache[calls[j].key].writer = j
        /\ cache[calls[j].key].data = calls[j].result.value
        /\ cache[calls[j].key].timestamp = now
        /\ now > calls[j].startedAt

-----------------------------------------------------------------------------
\* C35: a searchPokemon call that finds the entry of its key 5 minutes old
\* or older issues a fetch; when a call succeeds, the key holds one entry
\* with its payload, stamped with the time of that step; and a call that
\* finds the entry of its key younger than 5 minutes resolves with the
\* entry's payload without a fetch.
C35_RefetchRestartsTheClock ==
    [][/\ (Lookup /\ calls'[Len(calls')].op = "searchPokemon") =>
             LET c == calls'[Len(calls')]
             IN  /\ Stale(c.key) =>
                       /\ c.pc = "fetch"
                       /\ FetchIssued(c.url)
                 /\ Fresh(c.key) =>
                       /\ c.result = Fulfilled(cache[c.key].data)
                       /\ fetchLog' = fetchLog
       /\ \A i \in DOMAIN calls :
             (/\ calls[i].op = "searchPokemon"
              /\ calls[i].pc = "exec"
              /\ calls'[i].pc = "done"
              /\ calls'[i].result.state = "fulfilled") =>
                 /\ cache'[calls[i].key] =
                        [data |-> calls'[i].result.value, timestamp |-> now,
                         writer |-> i]
                 /\ now' - cache'[calls[i].key].timestamp < CACHE_DURATION]_vars

\* a call found the entry of its key exactly 5 minutes old, fetched and
\* succeeded: the key holds the entry of that call, stamped with the
\* present time
C35_Witness ==
    \E i \in DOMAIN calls :
        /\ calls[i].op = "searchPokemon"
        /\ calls[i].seen # <<>>
        /\ calls[i].startedAt - calls[i].seen[1].timestamp = CACHE_DURATION
        /\ SucceededByNetwork(i)
        /\ calls[i].key \in DOMAIN cache
        /\ cache[calls[i].key].writer = i
        /\ cache[calls[i].key].timestamp = now
        /\ cache[calls[i].key].timestamp > calls[i].seen[1].timestamp

-----------------------------------------------------------------------------
(* SpecFailures: the domain operations, one call after the other, under    *)
(* every kind of failure, while entries expire                             *)

\* a failure of the transport, a 500, a 200 that is not JSON, a 200 whose
\* body does not decode, a body that fails every shape validation, and a
\* body that searchPokemon and getPokemonSpecies accept
FailureOutcomes ==
    {Rejects(FailedToFetch),
     Fulfils(Status(500)),
     Fulfils(Response(200, "OK", TextType, <<>>, PokemonBody(1))),
     Fulfils(Response(200, "OK", JsonType, <<BadJson>>, JNull)),
     Fulfils(Ok(BadPokemonBody)),
     Fulfils(Ok(PokemonBody(1)))}

NextFailures ==
    \/ Idle /\ CallSearchPokemon(JsStr(Pikachu))
    \/ Idle /\ CallGetPokemonSpecies(JsNum(25))
    \/ Idle /\ CallGetPokemonList(20, 0)
    \/ Settles(FailureOutcomes)
    \/ Waiting /\ Tick(CACHE_DURATION)

SpecFailures == Init /\ [][NextFailures]_vars

\* the calls made in this step that reached their cache lookup
NewLookups ==
    {i \in DOMAIN calls' \ DOMAIN calls : calls'[i].key # <<>>}

\* call i is the last call so far that looked up `key`
LastFor(i, key) ==
    /\ calls[i].key = key
    /\ \A j \in DOMAIN calls : calls[j].key = key => j <= i

-----------------------------------------------------------------------------
(* calls served from the cache, in SpecSameName                            *)

\* call i found a fresh entry at its lookup
Served(i) ==
    /\ calls[i].seen # <<>>
    /\ calls[i].startedAt - calls[i].seen[1].timestamp < CACHE_DURATION

\* C38: a call that finds a fresh entry of its key, with data that
\* `if (cachedData)` accepts, resolves at once with the data and leaves the fetches issued, the three flags, the
\* notifications delivered and the cache as they were; no fetch is ever
\* issued by a call that was served from the cache.
C38_ServedFromCache ==
    [][/\ (/\ Lookup
           /\ Fresh(calls'[Len(calls')].key)
           /\ Truthy(getCachedData(cache, calls'[Len(calls')].key, now))) =>
             /\ calls'[Len(calls')].pc = "done"
             /\ calls'[Len(calls')].result =
                    Fulfilled(cache[calls'[Len(calls')].key].data)
             /\ fetchLog' = fetchLog
             /\ loadingStates' = loadingStates
             /\ notifyLog' = notifyLog
             /\ cache' = cache
       /\ \A i \in DOMAIN calls' :
             (calls'[i].seen # <<>> /\ calls'[i].startedAt
                  - calls'[i].seen[1].timestamp < CACHE_DURATION) =>
                 /\ \A f \in DOMAIN fetchLog' : fetchLog'[f].call # i
                 /\ \A n \in DOMAIN notifyLog' : notifyLog'[n].src # i]_vars

\* with a subscriber registered, a searchPokemon call was served from the
\* entry an earlier call had written; it resolved without a fetch and
\* without a notification
C38_Witness ==
    \E i, j \in DOMAIN calls :
        /\ i < j
        /\ subscribers # <<>>
        /\ calls[j].op = "searchPokemon"
        /\ Served(j)
        /\ calls[j].seen[1].writer = i
        /\ calls[j].result.state = "fulfilled"
        /\ FetchesOf(j) = 0
        /\ \E n \in DOMAIN notifyLog : notifyLog[n].src = i
        /\ \A n \in DOMAIN notifyLog : notifyLog[n].src # j

-----------------------------------------------------------------------------
(* SpecTermination: every fetch and every body read settles, and the       *)
(* continuations the event loop has queued run                             *)

\* a success and a failure of the transport
TerminationOutcomes == {Fulfils(Ok(PokemonBody(1))), Rejects(FailedToFetch)}

NextTermination ==
    \/ Idle /\ CallSearchPokemon(JsStr(Pikachu))
    \/ Idle /\ CallGetPokemonWithSpecies(JsStr(Pikachu))
    \/ Idle /\ CallBatchFetch(BatchUrls, TRUE, 2)
    \/ Settles(TerminationOutcomes)
    \/ BatchSettles(TerminationOutcomes)

SpecTermination ==
    /\ Init
    /\ [][NextTermination]_vars
    /\ WF_vars(Settles(TerminationOutcomes))
    /\ WF_vars(BatchSettles(TerminationOutcomes))

\* the records of calls a behaviour can hold: getPokemonWithSpecies makes
\* three
CallIds == 1..(3 * MaxCalls)

\* n / d rounded up
Ceil(n, d) == (n + d - 1) \div d

\* the windows of call i whose Promise.all has settled
WindowsDone(i) == calls[i].next \div calls[i].batchSize

\* call i has resolved or has rejected
Settled(i) ==
    /\ i \in DOMAIN calls
    /\ calls[i].pc = "done"
    /\ calls[i].result.state \in {"fulfilled", "rejected"}

====
